---- MODULE Spec2Model ----
(***************************************************************************)
(* Model of the valuation and scoring engine of stock_performance_modeling *)
(* (FinancialAnalyzer in src/financial_analyzer.py, the recommendation of  *)
(* ResultsReporter and of the monolithic StockPerformanceModel).           *)
(*                                                                         *)
(* Python dicts are functions whose DOMAIN is the set of keys present, so  *)
(* an absent key and a key holding 0 are different inputs.  Lists are      *)
(* sequences.  Python's None is the empty sequence where a value is        *)
(* optional (the "year" of a record).                                      *)
(***************************************************************************)
EXTENDS Integers, Sequences, FiniteSets, TLC

(***************************************************************************)
(* Numbers                                                                 *)
(***************************************************************************)
\* Python floats are modelled as decimal floating point numbers m * 10^e with
\* at most eight significant digits, rounded to nearest (ties to even).
MantLimit == 10000 * 10000
Abs(x) == IF x < 0 THEN 0 - x ELSE x
Sgn(x) == IF x < 0 THEN -1 ELSE IF x > 0 THEN 1 ELSE 0
Min2(a, b) == IF a <= b THEN a ELSE b

RECURSIVE Pow10(_)
Pow10(k) == IF k <= 0 THEN 1 ELSE 10 * Pow10(k - 1)
RECURSIVE Digits(_)
Digits(n) == IF n < 10 THEN 1 ELSE 1 + Digits(n \div 10)

\* canonical form: no trailing zero in the mantissa, zero is 0 * 10^0
RECURSIVE Strip(_, _)
Strip(m, e) == IF m = 0 THEN [m |-> 0, e |-> 0]
               ELSE IF m % 10 = 0 THEN Strip(m \div 10, e + 1)
               ELSE [m |-> m, e |-> e]

\* quotient q with remainder r against half a unit: to nearest, ties to even;
\* sticky says that digits below the remainder were already lost
RoundAt(q, r, half, sticky) ==
    IF r > half \/ (r = half /\ sticky) THEN q + 1
    ELSE IF r < half THEN q
    ELSE IF q % 2 = 1 THEN q + 1 ELSE q

\* n >= 0 with `drop` low digits removed
RoundDrop(n, drop, sticky) ==
    IF drop = 0 THEN n
    ELSE RoundAt(n \div Pow10(drop), n % Pow10(drop), Pow10(drop) \div 2, sticky)

MkDrop(s, n, e, sticky, drop) == Strip(s * RoundDrop(n, drop, sticky), e + drop)

\* the float nearest to s * n * 10^e, n >= 0 below 2^31
Mk(s, n, e, sticky) == MkDrop(s, n, e, sticky, IF Digits(n) > 8 THEN Digits(n) - 8 ELSE 0)

F(i) == Mk(Sgn(i), Abs(i), 0, FALSE)
Dec(i, places) == Mk(Sgn(i), Abs(i), 0 - places, FALSE)
FNeg(a) == [m |-> 0 - a.m, e |-> a.e]

\* the sum s at exponent e, with the guard digit g of the smaller operand (of
\* sign sy) and a flag for what lies below the guard digit
FAddRound(s, sy, g, low, e) ==
    IF Abs(s) < 2 * MantLimit
    THEN Mk(Sgn(s),
            (Abs(s) * 10 + (IF sy = Sgn(s) THEN g ELSE 0 - g))
                - (IF low /\ sy # Sgn(s) THEN 1 ELSE 0),
            e - 1, low)
    ELSE Mk(Sgn(s), Abs(s) - (IF (low \/ g # 0) /\ sy # Sgn(s) THEN 1 ELSE 0), e, low \/ g # 0)

\* xs at exponent e plus the operand sy * ym that lies r digits lower
FAddCut(xs, e, sy, ym, r) ==
    FAddRound(xs + sy * (IF r >= 9 THEN 0 ELSE ym \div Pow10(r)),
              sy,
              IF r = 0 \/ r >= 10 THEN 0 ELSE (ym \div Pow10(r - 1)) % 10,
              IF r = 0 THEN FALSE ELSE IF r >= 10 THEN TRUE ELSE ym % Pow10(r - 1) # 0,
              e)

FAddScaled(x, y, sx) == FAddCut(x.m * Pow10(sx), x.e - sx, Sgn(y.m), Abs(y.m), x.e - y.e - sx)

\* x.e >= y.e; x is scaled up to nine digits at most, y is cut to that scale
FAddOrd(x, y) == FAddScaled(x, y, Min2(x.e - y.e, 9 - Digits(Abs(x.m))))

FAdd(a, b) == IF a.m = 0 THEN b ELSE IF b.m = 0 THEN a
              ELSE IF a.e >= b.e THEN FAddOrd(a, b) ELSE FAddOrd(b, a)
FSub(a, b) == FAdd(a, FNeg(b))

FMulRound(s, top, rem, half, e) ==
    Strip(s * (IF rem > half \/ (rem = half /\ top % 2 = 1) THEN top + 1 ELSE top), e)

\* the product hi * 10^8 + lo cut to eight digits
FMulWide(s, hi, lo, e) ==
    IF hi = 0 THEN Strip(s * lo, e)
    ELSE FMulRound(s, hi * Pow10(8 - Digits(hi)) + lo \div Pow10(Digits(hi)),
                   lo % Pow10(Digits(hi)), Pow10(Digits(hi)) \div 2, e + Digits(hi))

FMulMid(s, hh, mid, ll, e) ==
    FMulWide(s,
             hh + mid \div 10000 + (ll + (mid % 10000) * 10000) \div MantLimit,
             (ll + (mid % 10000) * 10000) % MantLimit,
             e)

\* the mantissas are multiplied in halves of four digits
FMulParts(s, x1, x0, y1, y0, e) == FMulMid(s, x1 * y1, x1 * y0 + x0 * y1, x0 * y0, e)

FMul(a, b) ==
    IF a.m = 0 \/ b.m = 0 THEN [m |-> 0, e |-> 0]
    ELSE FMulParts(Sgn(a.m) * Sgn(b.m), Abs(a.m) \div 10000, Abs(a.m) % 10000,
                   Abs(b.m) \div 10000, Abs(b.m) % 10000, a.e + b.e)

\* long division: quotient digits until nine are known or the remainder is 0
RECURSIVE DivDigits(_, _, _, _)
DivDigits(q, r, b, n) ==
    IF r = 0 \/ q >= MantLimit THEN [q |-> q, r |-> r, n |-> n]
    ELSE DivDigits(q * 10 + (r * 10) \div b, (r * 10) % b, b, n + 1)

FDivRound(s, d, e) == Mk(s, d.q, e - d.n, d.r # 0)

\* b.m # 0
FDiv(a, b) ==
    IF a.m = 0 THEN [m |-> 0, e |-> 0]
    ELSE FDivRound(Sgn(a.m) * Sgn(b.m),
                   DivDigits(Abs(a.m) \div Abs(b.m), Abs(a.m) % Abs(b.m), Abs(b.m), 0),
                   a.e - b.e)

FSign(a) == Sgn(a.m)
FLt(a, b) == FSign(FSub(a, b)) < 0
FGt(a, b) == FLt(b, a)
FLe(a, b) == ~FLt(b, a)
FGe(a, b) == ~FLt(a, b)
RECURSIVE FPow(_, _)
FPow(a, k) == IF k = 0 THEN F(1) ELSE FMul(FPow(a, k - 1), a)

Zero == F(0)
One == F(1)

(***************************************************************************)
(* Python values                                                           *)
(***************************************************************************)
EmptyDict == <<>>
Get(d, k, default) == IF k \in DOMAIN d THEN d[k] ELSE default
\* d.get("year"): <<y>> when the key is present, None (the empty sequence) otherwise
YearOf(d) == IF "year" \in DOMAIN d THEN <<d["year"]>> ELSE <<>>
Range(f) == {f[k] : k \in DOMAIN f}

\* the outcome of a call: the value returned, or the exception raised
Ok(v) == [exc |-> "none", val |-> v]
Raise(e) == [exc |-> e, val |-> <<>>]

(***************************************************************************)
(* FinancialAnalyzer: the analysis methods.  self is the record of the     *)
(* analyzer's fields.                                                      *)
(***************************************************************************)
\* a previous year taken from the end of the history
PreviousYearOldest(financials) ==
    IF Len(financials) > 1 THEN financials[Len(financials)] ELSE EmptyDict

\* financials[1] if len(financials) > 1 else {}
PreviousYear(financials) ==
    IF Len(financials) > 1 THEN financials[2] ELSE EmptyDict

calculate_financial_metrics(self) ==
    IF Len(Get(self.company_data, "financials", <<>>)) = 0 THEN Raise("ValueError")
    ELSE
    LET fin == self.company_data["financials"]
        current_year == fin[1]
        previous_year == PreviousYear(fin)
        estimates == Get(self.company_data, "estimates", EmptyDict)
        net_margin ==
            IF FGt(Get(current_year, "revenue", Zero), Zero)
            THEN FDiv(Get(current_year, "netIncome", Zero), Get(current_year, "revenue", One))
            ELSE Zero
        return_on_equity ==
            IF FGt(Get(current_year, "totalEquity", Zero), Zero)
            THEN FDiv(Get(current_year, "netIncome", Zero), Get(current_year, "totalEquity", One))
            ELSE Zero
        return_on_assets ==
            IF FGt(Get(current_year, "totalAssets", Zero), Zero)
            THEN FDiv(Get(current_year, "netIncome", Zero), Get(current_year, "totalAssets", One))
            ELSE Zero
        revenue_growth ==
            IF DOMAIN previous_year # {} /\ FGt(Get(previous_year, "revenue", Zero), Zero)
            THEN FDiv(FSub(Get(current_year, "revenue", Zero), Get(previous_year, "revenue", Zero)),
                      Get(previous_year, "revenue", One))
            ELSE Zero
        net_income_growth ==
            IF DOMAIN previous_year # {} /\ FGt(Get(previous_year, "netIncome", Zero), Zero)
            THEN FDiv(FSub(Get(current_year, "netIncome", Zero), Get(previous_year, "netIncome", Zero)),
                      Get(previous_year, "netIncome", One))
            ELSE Zero
        pe_ratio ==
            IF FGt(Get(current_year, "shares_outstanding", Zero), Zero)
               /\ Get(current_year, "netIncome", Zero) # Zero
            THEN FDiv(Get(current_year, "stock_price", Zero),
                      FDiv(Get(current_year, "netIncome", One), Get(current_year, "shares_outstanding", One)))
            ELSE Zero
        market_cap == FMul(Get(current_year, "stock_price", Zero), Get(current_year, "shares_outstanding", Zero))
        price_to_sales ==
            IF FGt(Get(current_year, "revenue", Zero), Zero)
            THEN FDiv(market_cap, Get(current_year, "revenue", One))
            ELSE Zero
        price_to_book ==
            IF FGt(Get(current_year, "totalEquity", Zero), Zero)
            THEN FDiv(market_cap, Get(current_year, "totalEquity", One))
            ELSE Zero
        enterprise_value == FAdd(market_cap, Get(current_year, "totalDebt", Zero))
        ev_to_ebitda ==
            IF FGt(Get(current_year, "ebitda", Zero), Zero)
            THEN FDiv(enterprise_value, Get(current_year, "ebitda", One))
            ELSE Zero
        debt_to_equity ==
            IF FGt(Get(current_year, "totalEquity", Zero), Zero)
            THEN FDiv(Get(current_year, "totalDebt", Zero), Get(current_year, "totalEquity", One))
            ELSE Zero
        current_price_to_target ==
            IF FGt(Get(estimates, "target_price", Zero), Zero)
            THEN FDiv(Get(current_year, "stock_price", Zero), Get(estimates, "target_price", One))
            ELSE One
        dividend_yield ==
            IF FGt(Get(current_year, "stock_price", Zero), Zero)
            THEN FDiv(Get(current_year, "dividend_per_share", Zero), Get(current_year, "stock_price", One))
            ELSE Zero
        payout_ratio ==
            IF FGt(Get(current_year, "netIncome", Zero), Zero)
               /\ FGt(Get(current_year, "shares_outstanding", Zero), Zero)
            THEN FDiv(FMul(Get(current_year, "dividend_per_share", Zero),
                           Get(current_year, "shares_outstanding", Zero)),
                      Get(current_year, "netIncome", One))
            ELSE Zero
        earnings_per_share ==
            IF FGt(Get(current_year, "shares_outstanding", Zero), Zero)
            THEN FDiv(Get(current_year, "netIncome", Zero), Get(current_year, "shares_outstanding", One))
            ELSE Zero
        forward_pe ==
            IF FGt(Get(estimates, "next_year_eps", Zero), Zero)
            THEN FDiv(Get(current_year, "stock_price", Zero), Get(estimates, "next_year_eps", One))
            ELSE Zero
        peg_ratio ==
            IF FGt(pe_ratio, Zero) /\ FGt(Get(estimates, "long_term_growth_rate", Zero), Zero)
            THEN FDiv(pe_ratio, FMul(Get(estimates, "long_term_growth_rate", Dec(1, 2)), F(100)))
            ELSE Zero
    IN Ok([net_margin |-> net_margin,
           return_on_equity |-> return_on_equity,
           return_on_assets |-> return_on_assets,
           revenue_growth |-> revenue_growth,
           net_income_growth |-> net_income_growth,
           pe_ratio |-> pe_ratio,
           price_to_sales |-> price_to_sales,
           price_to_book |-> price_to_book,
           enterprise_value |-> enterprise_value,
           ev_to_ebitda |-> ev_to_ebitda,
           debt_to_equity |-> debt_to_equity,
           current_price_to_target |-> current_price_to_target,
           dividend_yield |-> dividend_yield,
           payout_ratio |-> payout_ratio,
           earnings_per_share |-> earnings_per_share,
           forward_pe |-> forward_pe,
           peg_ratio |-> peg_ratio])

\* a return entry whose total leaves out the dividend
StockReturnPriceOnly(current_year, previous_year) ==
    [year |-> YearOf(current_year),
     price_return |->
         IF FGt(Get(previous_year, "stock_price", Zero), Zero)
         THEN FDiv(FSub(Get(current_year, "stock_price", Zero), Get(previous_year, "stock_price", Zero)),
                   Get(previous_year, "stock_price", One))
         ELSE Zero,
     dividend_return |->
         IF FGt(Get(previous_year, "stock_price", Zero), Zero)
         THEN FDiv(Get(current_year, "dividend_per_share", Zero), Get(previous_year, "stock_price", One))
         ELSE Zero,
     total_return |->
         IF FGt(Get(previous_year, "stock_price", Zero), Zero)
         THEN FDiv(FSub(Get(current_year, "stock_price", Zero), Get(previous_year, "stock_price", Zero)),
                   Get(previous_year, "stock_price", One))
         ELSE Zero]

StockReturn(current_year, previous_year) ==
    LET price_return ==
            IF FGt(Get(previous_year, "stock_price", Zero), Zero)
            THEN FDiv(FSub(Get(current_year, "stock_price", Zero), Get(previous_year, "stock_price", Zero)),
                      Get(previous_year, "stock_price", One))
            ELSE Zero
        dividend_return ==
            IF FGt(Get(previous_year, "stock_price", Zero), Zero)
            THEN FDiv(Get(current_year, "dividend_per_share", Zero), Get(previous_year, "stock_price", One))
            ELSE Zero
    IN [year |-> YearOf(current_year),
        price_return |-> price_return,
        dividend_return |-> dividend_return,
        total_return |-> FAdd(price_return, dividend_return)]

\* returns appended to the list the analyzer already holds
calculate_stock_returns_appending(self) ==
    IF "financials" \notin DOMAIN self.company_data THEN Raise("KeyError")
    ELSE Ok(self.stock_returns
            \o [i \in 1..(Len(self.company_data["financials"]) - 1) |->
                    StockReturn(self.company_data["financials"][i],
                                self.company_data["financials"][i + 1])])

calculate_stock_returns(self) ==
    IF "financials" \notin DOMAIN self.company_data THEN Raise("KeyError")
    ELSE LET fin == self.company_data["financials"]
         IN IF Len(fin) < 2 THEN Ok(<<>>)
            ELSE Ok([i \in 1..(Len(fin) - 1) |-> StockReturn(fin[i], fin[i + 1])])

\* the index of the last matching item, 0 for None
LastMatch(market_index, year, i) ==
    IF \E j \in i..Len(market_index) : YearOf(market_index[j]) = year
    THEN CHOOSE j \in i..Len(market_index) :
            /\ YearOf(market_index[j]) = year
            /\ \A k \in (j + 1)..Len(market_index) : YearOf(market_index[k]) # year
    ELSE 0

\* next((item for item in market_index if item.get("year") == year), None):
\* the index of the first matching item, 0 for None
RECURSIVE FirstMatch(_, _, _)
FirstMatch(market_index, year, i) ==
    IF i > Len(market_index) THEN 0
    ELSE IF YearOf(market_index[i]) = year THEN i
    ELSE FirstMatch(market_index, year, i + 1)

RECURSIVE AlphaFrom(_, _, _)
AlphaFrom(market_index, company_returns, i) ==
    IF i > Len(company_returns) THEN <<>>
    ELSE LET company_return == company_returns[i]
             j == FirstMatch(market_index, Get(company_return, "year", <<>>), 1)
             found == j # 0 /\ DOMAIN market_index[j] # {}
             entry == [year |-> Get(company_return, "year", <<>>),
                       alpha |-> FSub(Get(company_return, "total_return", Zero),
                                      Get(market_index[j], "return", Zero))]
         IN (IF found THEN <<entry>> ELSE <<>>) \o AlphaFrom(market_index, company_returns, i + 1)

calculate_alpha(self, company_returns) ==
    Ok(AlphaFrom(Get(self.benchmark_data, "market_index", <<>>), company_returns, 1))

\* sorted(values), ascending
RECURSIVE Insert(_, _)
Insert(v, sorted) ==
    IF sorted = <<>> THEN <<v>>
    ELSE IF FLe(v, Head(sorted)) THEN <<v>> \o sorted
    ELSE <<Head(sorted)>> \o Insert(v, Tail(sorted))
RECURSIVE Sorted(_)
Sorted(values) == IF values = <<>> THEN <<>> ELSE Insert(Head(values), Sorted(Tail(values)))

\* a median that takes the upper middle element of an even count
MedianUpper(values) == values[(Len(values) \div 2) + 1]

Median(values) ==
    LET middle == Len(values) \div 2
    IN IF Len(values) % 2 = 0 /\ Len(values) > 1
       THEN FDiv(FAdd(values[middle], values[middle + 1]), F(2))
       ELSE values[middle + 1]

snake_to_camel ==
    [pe_ratio |-> "peRatio",
     price_to_sales |-> "priceToSales",
     price_to_book |-> "priceToBook",
     ev_to_ebitda |-> "evToEbitda",
     debt_to_equity |-> "debtToEquity",
     return_on_equity |-> "returnOnEquity",
     return_on_assets |-> "returnOnAssets",
     net_margin |-> "netMargin",
     revenue_growth |-> "revenueGrowth"]

\* the key under which compare_to_peers looks the peer metric up in company_metrics
CompanyMetricFor(metric) ==
    IF metric \in Range(snake_to_camel)
    THEN CHOOSE k \in DOMAIN snake_to_camel : snake_to_camel[k] = metric
    ELSE IF metric \in DOMAIN snake_to_camel THEN snake_to_camel[metric]
    ELSE metric

\* a lookup that knows the names of snake_to_camel only
SpmCompanyMetricForNamesOnly(metric) ==
    IF metric \in DOMAIN snake_to_camel THEN snake_to_camel[metric] ELSE metric

\* the same key in StockPerformanceModel.compare_to_peers, which tests the names of
\* snake_to_camel before its values
SpmCompanyMetricFor(metric) ==
    IF metric \in DOMAIN snake_to_camel THEN snake_to_camel[metric]
    ELSE IF metric \in Range(snake_to_camel)
    THEN CHOOSE k \in DOMAIN snake_to_camel : snake_to_camel[k] = metric
    ELSE metric

\* an entry that only compares against a positive median
PeerEntryPositiveMedian(peer_companies, company_metrics, metric) ==
    [company_value |-> Get(company_metrics, CompanyMetricFor(metric), Zero),
     peer_median |->
         Median(Sorted([i \in 1..Len(peer_companies) |->
                          Get(Get(peer_companies[i], "current_metrics", EmptyDict), metric, Zero)])),
     percent_difference |->
         IF FGt(Median(Sorted([i \in 1..Len(peer_companies) |->
                  Get(Get(peer_companies[i], "current_metrics", EmptyDict), metric, Zero)])), Zero)
         THEN FMul(FDiv(FSub(Get(company_metrics, CompanyMetricFor(metric), Zero),
                             Median(Sorted([i \in 1..Len(peer_companies) |->
                                 Get(Get(peer_companies[i], "current_metrics", EmptyDict),
                                     metric, Zero)]))),
                        Median(Sorted([i \in 1..Len(peer_companies) |->
                            Get(Get(peer_companies[i], "current_metrics", EmptyDict),
                                metric, Zero)]))),
                   F(100))
         ELSE Zero]

PeerEntry(peer_companies, company_metrics, metric) ==
    LET values == Sorted([i \in 1..Len(peer_companies) |->
                            Get(Get(peer_companies[i], "current_metrics", EmptyDict), metric, Zero)])
        peer_median == Median(values)
        company_value == Get(company_metrics, CompanyMetricFor(metric), Zero)
        percent_difference ==
            IF peer_median # Zero
            THEN FMul(FDiv(FSub(company_value, peer_median), peer_median), F(100))
            ELSE Zero
    IN [company_value |-> company_value,
        peer_median |-> peer_median,
        percent_difference |-> percent_difference]

compare_to_peers(self, company_metrics) ==
    IF Len(self.peer_companies) = 0 THEN Ok(EmptyDict)
    ELSE LET metric_keys == DOMAIN Get(self.peer_companies[1], "current_metrics", EmptyDict)
         IN Ok([metric \in metric_keys |-> PeerEntry(self.peer_companies, company_metrics, metric)])

\* StockPerformanceModel.compare_to_peers
SpmPeerEntry(peer_companies, company_metrics, metric) ==
    LET values == Sorted([i \in 1..Len(peer_companies) |->
                            Get(Get(peer_companies[i], "current_metrics", EmptyDict), metric, Zero)])
        peer_median == Median(values)
        company_value == Get(company_metrics, SpmCompanyMetricFor(metric), Zero)
        percent_difference ==
            IF peer_median # Zero
            THEN FMul(FDiv(FSub(company_value, peer_median), peer_median), F(100))
            ELSE Zero
    IN [company_value |-> company_value,
        peer_median |-> peer_median,
        percent_difference |-> percent_difference]

spm_compare_to_peers(self, company_metrics) ==
    IF Len(self.peer_companies) = 0 THEN Ok(EmptyDict)
    ELSE LET metric_keys == DOMAIN Get(self.peer_companies[1], "current_metrics", EmptyDict)
         IN Ok([metric \in metric_keys |->
                   SpmPeerEntry(self.peer_companies, company_metrics, metric)])

\* a projection that grows the original base in every year
ProjectCashFlowsOnBase(base_cash_flow, long_term_growth_rate, year) ==
    [k \in 1..(6 - year) |->
        FMul(base_cash_flow,
             FAdd(One, FMul(long_term_growth_rate,
                            FSub(One, FMul(F(year + k - 2), Dec(1, 1))))))]

\* the loop of perform_dcf over year = first..5: the projected cash flows
RECURSIVE ProjectCashFlows(_, _, _)
ProjectCashFlows(base_cash_flow, long_term_growth_rate, year) ==
    IF year > 5 THEN <<>>
    ELSE LET growth_rate == FMul(long_term_growth_rate, FSub(One, FMul(F(year - 1), Dec(1, 1))))
             next_cash_flow == FMul(base_cash_flow, FAdd(One, growth_rate))
         IN <<next_cash_flow>> \o ProjectCashFlows(next_cash_flow, long_term_growth_rate, year + 1)

RECURSIVE Sum(_)
Sum(values) == IF values = <<>> THEN Zero ELSE FAdd(Sum(SubSeq(values, 1, Len(values) - 1)), values[Len(values)])

\* a base cash flow that prefers the share of revenue to the net income
BaseCashFlowRevenueFirst(current_year) ==
    IF FGt(Get(current_year, "cashFlow", Zero), Zero) THEN Get(current_year, "cashFlow", Zero)
    ELSE IF FGt(Get(current_year, "revenue", Zero), Zero)
    THEN FMul(Get(current_year, "revenue", Zero), Dec(1, 1))
    ELSE FMul(Get(current_year, "netIncome", Zero), Dec(11, 1))

BaseCashFlow(current_year) ==
    LET cf0 == Get(current_year, "cashFlow", Zero)
        cf1 == IF FLe(cf0, Zero) THEN FMul(Get(current_year, "netIncome", Zero), Dec(11, 1)) ELSE cf0
    IN IF FLe(cf1, Zero) /\ FGt(Get(current_year, "revenue", Zero), Zero)
       THEN FMul(Get(current_year, "revenue", Zero), Dec(1, 1))
       ELSE cf1

\* a cost of capital with a beta of 1
WaccUnitBeta(self, current_year) ==
    FAdd(FMul(IF FGt(FAdd(FMul(Get(current_year, "stock_price", Zero),
                               Get(current_year, "shares_outstanding", Zero)),
                          Get(current_year, "totalDebt", Zero)), Zero)
              THEN FDiv(FMul(Get(current_year, "stock_price", Zero),
                             Get(current_year, "shares_outstanding", Zero)),
                        FAdd(FMul(Get(current_year, "stock_price", Zero),
                                  Get(current_year, "shares_outstanding", Zero)),
                             Get(current_year, "totalDebt", Zero)))
              ELSE One,
              FAdd(Get(self.benchmark_data, "risk_free_rate", Dec(35, 3)),
                   Get(self.benchmark_data, "market_risk_premium", Dec(55, 3)))),
         FMul(IF FGt(FAdd(FMul(Get(current_year, "stock_price", Zero),
                               Get(current_year, "shares_outstanding", Zero)),
                          Get(current_year, "totalDebt", Zero)), Zero)
              THEN FSub(One, FDiv(FMul(Get(current_year, "stock_price", Zero),
                                       Get(current_year, "shares_outstanding", Zero)),
                                  FAdd(FMul(Get(current_year, "stock_price", Zero),
                                            Get(current_year, "shares_outstanding", Zero)),
                                       Get(current_year, "totalDebt", Zero))))
              ELSE Zero,
              FMul(Dec(5, 2), FSub(One, Dec(25, 2)))))

Wacc(self, current_year) ==
    LET equity_value == FMul(Get(current_year, "stock_price", Zero), Get(current_year, "shares_outstanding", Zero))
        total_capital == FAdd(equity_value, Get(current_year, "totalDebt", Zero))
        equity_weight == IF FGt(total_capital, Zero) THEN FDiv(equity_value, total_capital) ELSE One
        debt_weight == IF FGt(total_capital, Zero) THEN FSub(One, equity_weight) ELSE Zero
        beta == Dec(12, 1)
        cost_of_equity == FAdd(Get(self.benchmark_data, "risk_free_rate", Dec(35, 3)),
                               FMul(beta, Get(self.benchmark_data, "market_risk_premium", Dec(55, 3))))
        tax_rate == Dec(25, 2)
        cost_of_debt == FMul(Dec(5, 2), FSub(One, tax_rate))
    IN FAdd(FMul(equity_weight, cost_of_equity), FMul(debt_weight, cost_of_debt))

\* the locals of perform_dcf before the projection loop
DcfLocals(self) ==
    [current_year |-> self.company_data["financials"][1],
     wacc |-> Wacc(self, self.company_data["financials"][1]),
     base_cash_flow |-> BaseCashFlow(self.company_data["financials"][1]),
     long_term_growth_rate |->
         Get(Get(self.company_data, "estimates", EmptyDict), "long_term_growth_rate", Dec(1, 1))]

\* the statements of perform_dcf after the zero-cash-flow return, one local each;
\* v holds the locals assigned so far
DcfProjected(v) ==
    [projected_cash_flows |-> ProjectCashFlows(v.base_cash_flow, v.long_term_growth_rate, 1)] @@ v

DcfPresentValues(v) ==
    [present_value_cfs |->
        [index \in 1..5 |-> FDiv(v.projected_cash_flows[index], FPow(FAdd(One, v.wacc), index))]] @@ v

\* a terminal value that falls back to ten times the last cash flow
DcfTerminalValueTenfold(v) ==
    [terminal_value |->
        IF FGt(v.wacc, Dec(3, 2))
        THEN FDiv(FMul(v.projected_cash_flows[5], FAdd(One, Dec(3, 2))), FSub(v.wacc, Dec(3, 2)))
        ELSE FMul(v.projected_cash_flows[5], F(10))] @@ v

DcfTerminalValue(v) ==
    [terminal_value |->
        IF FGt(v.wacc, Dec(3, 2))
        THEN FDiv(FMul(v.projected_cash_flows[5], FAdd(One, Dec(3, 2))), FSub(v.wacc, Dec(3, 2)))
        ELSE FMul(v.projected_cash_flows[5], F(20))] @@ v

DcfPresentValueTv(v) ==
    [present_value_tv |-> FDiv(v.terminal_value, FPow(FAdd(One, v.wacc), 5))] @@ v

DcfEnterpriseValue(v) ==
    [enterprise_value |-> FAdd(Sum(v.present_value_cfs), v.present_value_tv)] @@ v

\* an equity value that adds the debt
DcfEquityValueAddingDebt(v) ==
    [equity_value |-> FAdd(v.enterprise_value, Get(v.current_year, "totalDebt", Zero))] @@ v

DcfEquityValue(v) ==
    [equity_value |-> FSub(v.enterprise_value, Get(v.current_year, "totalDebt", Zero))] @@ v

DcfImpliedSharePrice(v) ==
    [implied_share_price |->
        IF FGt(Get(v.current_year, "shares_outstanding", Zero), Zero)
        THEN FDiv(v.equity_value, Get(v.current_year, "shares_outstanding", One))
        ELSE Zero] @@ v

DcfUpside(v) ==
    [upside |->
        IF FGt(Get(v.current_year, "stock_price", Zero), Zero)
        THEN FDiv(FSub(v.implied_share_price, Get(v.current_year, "stock_price", Zero)),
                  Get(v.current_year, "stock_price", One))
        ELSE Zero] @@ v

DcfResult(v) ==
    [wacc |-> v.wacc,
     projected_cash_flows |-> v.projected_cash_flows,
     present_value_cfs |-> v.present_value_cfs,
     terminal_value |-> v.terminal_value,
     present_value_tv |-> v.present_value_tv,
     enterprise_value |-> v.enterprise_value,
     equity_value |-> v.equity_value,
     implied_share_price |-> v.implied_share_price,
     upside |-> v.upside]

\* a valuation that refuses a company without positive cash flow
DcfFromRefusing(v) ==
    IF FLe(v.base_cash_flow, Zero) THEN Raise("ValueError")
    ELSE Ok(DcfResult(DcfUpside(DcfImpliedSharePrice(DcfEquityValue(DcfEnterpriseValue(
                DcfPresentValueTv(DcfTerminalValue(DcfPresentValues(DcfProjected(v))))))))))

\* a zeroed result whose wacc is 0 as well
DcfFromAllZero(v) ==
    IF FLe(v.base_cash_flow, Zero)
    THEN Ok([wacc |-> Zero, projected_cash_flows |-> <<>>, present_value_cfs |-> <<>>,
             terminal_value |-> Zero, present_value_tv |-> Zero, enterprise_value |-> Zero,
             equity_value |-> Zero, implied_share_price |-> Zero, upside |-> Zero])
    ELSE IF FAdd(One, v.wacc) = Zero THEN Raise("ZeroDivisionError")
    ELSE Ok(DcfResult(DcfUpside(DcfImpliedSharePrice(DcfEquityValue(DcfEnterpriseValue(
                DcfPresentValueTv(DcfTerminalValue(DcfPresentValues(DcfProjected(v))))))))))

DcfFrom(v) ==
    IF FLe(v.base_cash_flow, Zero)
    THEN Ok([wacc |-> v.wacc,
             projected_cash_flows |-> <<>>,
             present_value_cfs |-> <<>>,
             terminal_value |-> Zero,
             present_value_tv |-> Zero,
             enterprise_value |-> Zero,
             equity_value |-> Zero,
             implied_share_price |-> Zero,
             upside |-> Zero])
    ELSE IF FAdd(One, v.wacc) = Zero THEN Raise("ZeroDivisionError")
    ELSE Ok(DcfResult(DcfUpside(DcfImpliedSharePrice(DcfEquityValue(DcfEnterpriseValue(
                DcfPresentValueTv(DcfTerminalValue(DcfPresentValues(DcfProjected(v))))))))))

perform_dcf(self) ==
    IF Len(Get(self.company_data, "financials", <<>>)) = 0 THEN Raise("ValueError")
    ELSE DcfFrom(DcfLocals(self))

(***************************************************************************)
(* The underperformance scorer.  acc is the pair of locals                 *)
(* underperformance_score and underperformance_factors.  A factor records  *)
(* which message is appended and the number it quotes.                     *)
(***************************************************************************)
\* a score that is not let above 4
AddFactorCapped(acc, delta, factor) ==
    [score |-> IF acc.score + delta > 4 THEN 4 ELSE acc.score + delta,
     factors |-> Append(acc.factors, factor)]

\* a rule that lowers the score without naming its factor
AddFactorSilent(acc, delta, factor) ==
    [score |-> acc.score + delta,
     factors |-> IF delta < 0 THEN acc.factors ELSE Append(acc.factors, factor)]

AddFactor(acc, delta, factor) ==
    [score |-> acc.score + delta, factors |-> Append(acc.factors, factor)]

\* an alpha rule whose upper band starts at -5% itself
ScoreAlphaInclusive(self, acc) ==
    IF Len(self.alpha_analysis) > 0
    THEN IF FLe(self.alpha_analysis[1]["alpha"], Dec(-5, 2))
         THEN AddFactor(acc, 2, [factor |-> "underperformed the market",
                                 amount |-> FMul(FNeg(self.alpha_analysis[1]["alpha"]), F(100))])
         ELSE IF FLt(self.alpha_analysis[1]["alpha"], Zero)
         THEN AddFactor(acc, 1, [factor |-> "slightly underperformed the market",
                                 amount |-> FMul(FNeg(self.alpha_analysis[1]["alpha"]), F(100))])
         ELSE acc
    ELSE acc

\* 1. recent stock returns vs market
ScoreAlpha(self, acc) ==
    IF Len(self.alpha_analysis) > 0
    THEN LET recent_alpha == self.alpha_analysis[1]["alpha"]
         IN IF FLt(recent_alpha, Dec(-5, 2))
            THEN AddFactor(acc, 2, [factor |-> "underperformed the market",
                                    amount |-> FMul(FNeg(recent_alpha), F(100))])
            ELSE IF FLt(recent_alpha, Zero)
            THEN AddFactor(acc, 1, [factor |-> "slightly underperformed the market",
                                    amount |-> FMul(FNeg(recent_alpha), F(100))])
            ELSE acc
    ELSE acc

valuation_metrics == <<"peRatio", "priceToSales", "priceToBook", "evToEbitda">>
profitability_metrics == <<"returnOnEquity", "returnOnAssets", "netMargin">>
growth_metrics == <<"revenueGrowth">>

ValuationStep(self, acc, metric) ==
    IF metric \in DOMAIN self.peer_comparison
    THEN LET comparison == self.peer_comparison[metric]
         IN IF FLt(comparison["percent_difference"], F(-15))
            THEN AddFactor(acc, -1, [factor |-> "below peer median, potentially undervalued",
                                     metric |-> metric,
                                     amount |-> FNeg(comparison["percent_difference"])])
            ELSE IF FGt(comparison["percent_difference"], F(15))
            THEN AddFactor(acc, 1, [factor |-> "above peer median, potentially overvalued",
                                    metric |-> metric,
                                    amount |-> comparison["percent_difference"]])
            ELSE acc
    ELSE acc

\* a step that also rewards a metric above the peer median
BelowMedianStepBothSides(self, acc, metric) ==
    IF metric \in DOMAIN self.peer_comparison
    THEN IF FLt(self.peer_comparison[metric]["percent_difference"], F(-15))
         THEN AddFactor(acc, 1, [factor |-> "below peer median", metric |-> metric,
                                 amount |-> FNeg(self.peer_comparison[metric]["percent_difference"])])
         ELSE IF FGt(self.peer_comparison[metric]["percent_difference"], F(15))
         THEN AddFactor(acc, -1, [factor |-> "above peer median", metric |-> metric,
                                  amount |-> self.peer_comparison[metric]["percent_difference"]])
         ELSE acc
    ELSE acc

\* the body shared by the profitability loop and the growth loop
BelowMedianStep(self, acc, metric) ==
    IF metric \in DOMAIN self.peer_comparison
    THEN LET comparison == self.peer_comparison[metric]
         IN IF FLt(comparison["percent_difference"], F(-15))
            THEN AddFactor(acc, 1, [factor |-> "below peer median",
                                    metric |-> metric,
                                    amount |-> FNeg(comparison["percent_difference"])])
            ELSE acc
    ELSE acc

\* 2. valuation metrics vs peers: for metric in valuation_metrics
RECURSIVE ValuationLoop(_, _, _)
ValuationLoop(self, acc, i) ==
    IF i > Len(valuation_metrics) THEN acc
    ELSE ValuationLoop(self, ValuationStep(self, acc, valuation_metrics[i]), i + 1)
ScoreValuation(self, acc) == ValuationLoop(self, acc, 1)

\* 3. profitability metrics vs peers
RECURSIVE ProfitabilityLoop(_, _, _)
ProfitabilityLoop(self, acc, i) ==
    IF i > Len(profitability_metrics) THEN acc
    ELSE ProfitabilityLoop(self, BelowMedianStep(self, acc, profitability_metrics[i]), i + 1)
ScoreProfitability(self, acc) == ProfitabilityLoop(self, acc, 1)

\* 4. growth metrics vs peers
RECURSIVE GrowthLoop(_, _, _)
GrowthLoop(self, acc, i) ==
    IF i > Len(growth_metrics) THEN acc
    ELSE GrowthLoop(self, BelowMedianStep(self, acc, growth_metrics[i]), i + 1)
ScoreGrowth(self, acc) == GrowthLoop(self, acc, 1)

\* 5. DCF valuation
ScoreDcf(self, acc) ==
    IF DOMAIN self.dcf_valuation # {} /\ "upside" \in DOMAIN self.dcf_valuation
    THEN IF FGt(self.dcf_valuation["upside"], Dec(15, 2))
         THEN AddFactor(acc, -2, [factor |-> "DCF suggests undervalued",
                                  amount |-> FMul(self.dcf_valuation["upside"], F(100))])
         ELSE IF FLt(self.dcf_valuation["upside"], Dec(-15, 2))
         THEN AddFactor(acc, 2, [factor |-> "DCF suggests overvalued",
                                 amount |-> FMul(FNeg(self.dcf_valuation["upside"]), F(100))])
         ELSE acc
    ELSE acc

\* a target rule that fires at 0.8 itself
ScoreTargetInclusive(self, acc) ==
    IF "current_price_to_target" \in DOMAIN self.company_metrics
    THEN IF FLe(self.company_metrics["current_price_to_target"], Dec(8, 1))
         THEN AddFactor(acc, -1,
                        [factor |-> "below analyst target price",
                         amount |-> FMul(FSub(One, self.company_metrics["current_price_to_target"]),
                                         F(100))])
         ELSE acc
    ELSE acc

\* 6. current price vs analyst target
ScoreTarget(self, acc) ==
    IF "current_price_to_target" \in DOMAIN self.company_metrics
    THEN LET price_to_target == self.company_metrics["current_price_to_target"]
         IN IF FLt(price_to_target, Dec(8, 1))
            THEN AddFactor(acc, -1, [factor |-> "below analyst target price",
                                     amount |-> FMul(FSub(One, price_to_target), F(100))])
            ELSE acc
    ELSE acc

\* an assessment whose worst band starts above 4
AssessmentAboveFour(underperformance_score) ==
    IF underperformance_score > 4 THEN "Significantly underperforming"
    ELSE IF underperformance_score >= 2 THEN "Moderately underperforming"
    ELSE IF underperformance_score >= 0 THEN "Slightly underperforming"
    ELSE IF underperformance_score >= -2 THEN "Performing in line with expectations"
    ELSE "Outperforming expectations"

\* the overall assessment of a score
Assessment(underperformance_score) ==
    IF underperformance_score >= 4 THEN "Significantly underperforming"
    ELSE IF underperformance_score >= 2 THEN "Moderately underperforming"
    ELSE IF underperformance_score >= 0 THEN "Slightly underperforming"
    ELSE IF underperformance_score >= -2 THEN "Performing in line with expectations"
    ELSE "Outperforming expectations"

\* the rule blocks in the order in which assess_underperformance runs them
RuleOrder == <<"alpha", "valuation", "profitability", "growth", "dcf", "target">>

ApplyRule(rule, self, acc) ==
    CASE rule = "alpha" -> ScoreAlpha(self, acc)
      [] rule = "valuation" -> ScoreValuation(self, acc)
      [] rule = "profitability" -> ScoreProfitability(self, acc)
      [] rule = "growth" -> ScoreGrowth(self, acc)
      [] rule = "dcf" -> ScoreDcf(self, acc)
      [] rule = "target" -> ScoreTarget(self, acc)

RECURSIVE ApplyRules(_, _, _)
ApplyRules(order, self, acc) ==
    IF order = <<>> THEN acc
    ELSE ApplyRules(Tail(order), self, ApplyRule(Head(order), self, acc))

Scored(acc) ==
    [assessment |-> Assessment(acc.score), score |-> acc.score, factors |-> acc.factors]

assess_underperformance(self) ==
    Ok(Scored(ApplyRules(RuleOrder, self, [score |-> 0, factors |-> <<>>])))

(***************************************************************************)
(* run_analysis: each step stores its result in the analyzer before the    *)
(* next one runs; an exception leaves the fields assigned so far.          *)
(***************************************************************************)
Results(self) ==
    [company_metrics |-> self.company_metrics,
     stock_returns |-> self.stock_returns,
     alpha_analysis |-> self.alpha_analysis,
     peer_comparison |-> self.peer_comparison,
     dcf_valuation |-> self.dcf_valuation,
     underperformance_assessment |-> self.underperformance_assessment]

\* the scorer called before the DCF valuation of the run is stored
StepOrderScorerBeforeDcf ==
    <<"company_metrics", "stock_returns", "alpha_analysis", "peer_comparison",
      "underperformance_assessment", "dcf_valuation">>

\* the statements of run_analysis in order: the field assigned by each
StepOrder ==
    <<"company_metrics", "stock_returns", "alpha_analysis", "peer_comparison",
      "dcf_valuation", "underperformance_assessment">>

\* self is a StockPerformanceModel, which has a ticker, and calls its own methods;
\* they are those of FinancialAnalyzer line for line, compare_to_peers excepted
IsSpm(self) == "ticker" \in DOMAIN self

\* the call on the right-hand side of the statement that assigns `field`
Step(field, self) ==
    CASE field = "company_metrics" -> calculate_financial_metrics(self)
      [] field = "stock_returns" -> calculate_stock_returns(self)
      [] field = "alpha_analysis" -> calculate_alpha(self, self.stock_returns)
      [] field = "peer_comparison" -> IF IsSpm(self)
                                      THEN spm_compare_to_peers(self, self.company_metrics)
                                      ELSE compare_to_peers(self, self.company_metrics)
      [] field = "dcf_valuation" -> perform_dcf(self)
      [] field = "underperformance_assessment" -> assess_underperformance(self)

RECURSIVE RunSteps(_, _)

\* a statement that empties company_metrics when its call raises
AssignResetting(steps, self, r) ==
    IF r.exc # "none"
    THEN [self |-> [self EXCEPT !.company_metrics = EmptyDict], out |-> Raise(r.exc)]
    ELSE RunSteps(Tail(steps), [self EXCEPT ![Head(steps)] = r.val])

\* the first statement of steps, whose call had the outcome r: an exception ends
\* the run, a value is assigned to the field and the run goes on
Assign(steps, self, r) ==
    IF r.exc # "none" THEN [self |-> self, out |-> Raise(r.exc)]
    ELSE RunSteps(Tail(steps), [self EXCEPT ![Head(steps)] = r.val])

RunSteps(steps, self) ==
    IF steps = <<>> THEN [self |-> self, out |-> Ok(Results(self))]
    ELSE Assign(steps, self, Step(Head(steps), self))

run_analysis(self) == RunSteps(StepOrder, self)

(***************************************************************************)
(* StockPerformanceModel: fetch_all_data and run_analysis.  fetched is what *)
(* the data providers gave: an empty list for a provider that failed.       *)
(***************************************************************************)
SpmYear == 2024

\* str(item.get("date", "")).startswith(str(year)), a date being <<year, month, day>>
StartsWithYear(item, year) == "date" \in DOMAIN item /\ item["date"][1] = year

\* next((item for item in statements if ...startswith(str(year))), {})
StatementOfYear(statements, year) ==
    IF \E i \in 1..Len(statements) : StartsWithYear(statements[i], year)
    THEN statements[CHOOSE i \in 1..Len(statements) :
                       /\ StartsWithYear(statements[i], year)
                       /\ \A j \in 1..(i - 1) : ~StartsWithYear(statements[j], year)]
    ELSE EmptyDict

\* next((item for item in stock_prices if item["year"] == year), {})
StockPriceOfYear(stock_prices, year) ==
    IF \E i \in 1..Len(stock_prices) : stock_prices[i].year = year
    THEN stock_prices[CHOOSE i \in 1..Len(stock_prices) :
                         /\ stock_prices[i].year = year
                         /\ \A j \in 1..(i - 1) : stock_prices[j].year # year]
    ELSE EmptyDict

\* the except branch of fetch_analyst_estimates
DefaultEstimates(company_data) ==
    LET stock_prices == Get(company_data, "stock_prices", <<>>)
        income_statement == Get(company_data, "income_statement", <<>>)
        current_price == IF Len(stock_prices) > 0 THEN Get(stock_prices[1], "stock_price", Zero)
                         ELSE Zero
        shares == IF Len(stock_prices) > 0 THEN Get(stock_prices[1], "shares_outstanding", Zero)
                  ELSE Zero
        current_eps == IF Len(income_statement) > 0 /\ FGt(shares, Zero)
                       THEN FDiv(Get(income_statement[1], "netIncome", Zero), shares)
                       ELSE Zero
    IN [next_year_eps |-> FMul(current_eps, Dec(11, 1)),
        long_term_growth_rate |-> Dec(1, 1),
        target_price |-> FMul(current_price, Dec(11, 1))]

\* estimates is <<>> when the provider failed, else <<the first estimate it gave>>
fetch_analyst_estimates(company_data, estimates) ==
    IF estimates = <<>> THEN DefaultEstimates(company_data)
    ELSE [next_year_eps |-> Get(estimates[1], "estimatedEpsAvg", Zero),
          long_term_growth_rate |-> FDiv(Get(estimates[1], "estimatedGrowthRate", Zero), F(100)),
          target_price |-> Get(estimates[1], "targetPriceAvg", Zero)]

\* years without the current year and the two years before it
OrganizedYearsFetchedOnly(company_data) ==
    [i \in 1..Len(Get(company_data, "stock_prices", <<>>)) |-> company_data["stock_prices"][i].year]

\* the years organize_data gathers
OrganizedYears(company_data) ==
    IF Len(Get(company_data, "stock_prices", <<>>)) > 0
    THEN [i \in 1..Len(company_data["stock_prices"]) |-> company_data["stock_prices"][i].year]
    ELSE <<SpmYear, SpmYear - 1, SpmYear - 2>>

OrganizedYear(company_data, year) ==
    [year |-> year,
     stock_price |->
         Get(StockPriceOfYear(Get(company_data, "stock_prices", <<>>), year), "stock_price", Zero),
     shares_outstanding |->
         Get(StockPriceOfYear(Get(company_data, "stock_prices", <<>>), year),
             "shares_outstanding", Zero),
     dividend_per_share |->
         Get(StockPriceOfYear(Get(company_data, "stock_prices", <<>>), year),
             "dividend_per_share", Zero),
     revenue |->
         Get(StatementOfYear(Get(company_data, "income_statement", <<>>), year), "revenue", Zero),
     netIncome |->
         Get(StatementOfYear(Get(company_data, "income_statement", <<>>), year), "netIncome", Zero),
     ebitda |->
         Get(StatementOfYear(Get(company_data, "income_statement", <<>>), year), "ebitda", Zero),
     totalAssets |->
         Get(StatementOfYear(Get(company_data, "balance_sheet", <<>>), year), "totalAssets", Zero),
     totalEquity |->
         Get(StatementOfYear(Get(company_data, "balance_sheet", <<>>), year), "totalEquity", Zero),
     totalDebt |->
         FAdd(Get(StatementOfYear(Get(company_data, "balance_sheet", <<>>), year),
                  "shortTermDebt", Zero),
              Get(StatementOfYear(Get(company_data, "balance_sheet", <<>>), year),
                  "longTermDebt", Zero)),
     cashFlow |->
         Get(StatementOfYear(Get(company_data, "cash_flow", <<>>), year),
             "operatingCashFlow", Zero)]

organize_data(ticker, company_data) ==
    [name |-> Get(Get(company_data, "profile", EmptyDict), "companyName", ticker),
     ticker |-> ticker,
     sector |-> Get(Get(company_data, "profile", EmptyDict), "sector", "Unknown"),
     industry |-> Get(Get(company_data, "profile", EmptyDict), "industry", "Unknown"),
     financials |-> [i \in 1..Len(OrganizedYears(company_data)) |->
                        OrganizedYear(company_data, OrganizedYears(company_data)[i])],
     estimates |-> Get(company_data, "estimates", EmptyDict)]

\* company_data after the fetch_* calls: every provider sets its key, the estimates
\* last but for organize_data
FetchedCompanyData(company_data, fetched) ==
    [estimates |-> fetch_analyst_estimates(
                       [stock_prices |-> fetched.stock_prices,
                        income_statement |-> fetched.income_statement],
                       fetched.estimates)]
    @@ [profile |-> fetched.profile,
        income_statement |-> fetched.income_statement,
        balance_sheet |-> fetched.balance_sheet,
        cash_flow |-> fetched.cash_flow,
        stock_prices |-> fetched.stock_prices]
    @@ company_data

fetch_all_data(self, fetched) ==
    [self EXCEPT !.company_data = organize_data(self.ticker, FetchedCompanyData(@, fetched)),
                 !.benchmark_data = fetched.benchmark_data,
                 !.peer_companies = fetched.peer_companies]

\* StockPerformanceModel.run_analysis
spm_run_analysis(self, fetched) == RunSteps(StepOrder, fetch_all_data(self, fetched))

(***************************************************************************)
(* The facade StockPerformanceModel of stockPerformanceModel.py.  self is  *)
(* the record of its fields; fetched is the pair AnalystEstimator gives.   *)
(***************************************************************************)
\* a call of a constructor: the parameters it declares, the arguments it is given,
\* by name
Construct(parameters, arguments) ==
    IF DOMAIN arguments = parameters THEN Ok(arguments) ELSE Raise("TypeError")

\* FinancialAnalyzer(...): __init__ declares three parameters
FinancialAnalyzerInit(arguments) ==
    IF Construct({"company_data", "benchmark_data", "peer_companies"}, arguments).exc # "none"
    THEN Raise("TypeError")
    ELSE Ok([company_data |-> arguments.company_data,
             benchmark_data |-> arguments.benchmark_data,
             peer_companies |-> arguments.peer_companies,
             company_metrics |-> EmptyDict, stock_returns |-> <<>>, alpha_analysis |-> <<>>,
             peer_comparison |-> EmptyDict, dcf_valuation |-> EmptyDict,
             underperformance_assessment |-> EmptyDict])

facade_fetch_data(self, fetched) ==
    [self EXCEPT !.raw_data = [analyst_estimates |-> fetched[1], company_data |-> fetched[2]]]

\* the mean of the positive values of an estimate over the peers, 0 without any
PeerMean(peer_data, estimate) ==
    LET positive == SelectSeq([i \in 1..Len(peer_data) |-> Get(peer_data[i].metrics, estimate, Zero)],
                              LAMBDA x : FGt(x, Zero))
    IN IF Len(positive) > 0 THEN FDiv(Sum(positive), F(Len(positive))) ELSE Zero

\* analyze_peer_performance: the analysis results with the entry peer_performance
facade_analyze_peer_performance(analysis_results, peer_data) ==
    IF "metrics" \notin DOMAIN analysis_results THEN Raise("KeyError")
    ELSE LET company_pe == Get(analysis_results["metrics"], "forward_pe", Zero)
             company_growth == Get(analysis_results["metrics"], "peg_ratio", Zero)
             peer_pe_median == PeerMean(peer_data, "next_year_eps")
             peer_growth_median == PeerMean(peer_data, "long_term_growth_rate")
         IN Ok([peer_performance |->
                  [peer_pe_median |-> peer_pe_median,
                   peer_growth_median |-> peer_growth_median,
                   peer_assessment |->
                       <<IF FGt(company_pe, FMul(peer_pe_median, Dec(12, 1)))
                         THEN "Higher Valuation than Peers"
                         ELSE IF FLt(company_pe, FMul(peer_pe_median, Dec(8, 1)))
                         THEN "Lower Valuation than Peers"
                         ELSE "In Line">>
                       \o (IF FLt(company_growth, FMul(peer_growth_median, Dec(8, 1)))
                           THEN <<" + Lower Growth Potential">> ELSE <<>>)]]
               @@ analysis_results)

\* analyze_data from the call of run_analysis on: ran is the outcome of that call
FacadeAnalysed(self, ran, peer_data) ==
    IF ran.out.exc # "none"
    THEN [self |-> [self EXCEPT !.financial_analyzer = <<ran.self>>], out |-> Raise(ran.out.exc)]
    ELSE IF facade_analyze_peer_performance(ran.out.val, peer_data).exc # "none"
    THEN [self |-> [self EXCEPT !.financial_analyzer = <<ran.self>>,
                                !.analysis_results = ran.out.val],
          out |-> Raise(facade_analyze_peer_performance(ran.out.val, peer_data).exc)]
    ELSE [self |-> [self EXCEPT !.financial_analyzer = <<ran.self>>,
                                !.analysis_results =
                                    facade_analyze_peer_performance(ran.out.val, peer_data).val],
          out |-> Ok(facade_analyze_peer_performance(ran.out.val, peer_data).val)]

\* analyze_data from the construction of the analyzer on; self has its raw data
FacadeAnalyse(self, made, peer_data) ==
    IF made.exc # "none" THEN [self |-> self, out |-> Raise(made.exc)]
    ELSE FacadeAnalysed(self, run_analysis(made.val), peer_data)

facade_analyze_data(self, fetched, peer_data) ==
    FacadeAnalyse(IF DOMAIN self.raw_data = {} THEN facade_fetch_data(self, fetched) ELSE self,
                  FinancialAnalyzerInit(
                      [company_data |-> (IF DOMAIN self.raw_data = {}
                                         THEN facade_fetch_data(self, fetched)
                                         ELSE self).raw_data.company_data,
                       benchmark_data |-> EmptyDict,
                       peer_companies |-> peer_data,
                       analyst_estimates |-> (IF DOMAIN self.raw_data = {}
                                              THEN facade_fetch_data(self, fetched)
                                              ELSE self).raw_data.analyst_estimates]),
                  peer_data)

\* report_results and visualize_results from the analysis on: both build their helper,
\* which declares ticker, analysis_results and company_data, on one argument
FacadePresent(analysed) ==
    IF analysed.out.exc # "none" THEN analysed
    ELSE [self |-> analysed.self,
          out |-> Raise(Construct({"ticker", "analysis_results", "company_data"},
                                  [ticker |-> analysed.self.analysis_results]).exc)]

facade_report_results(self, fetched, peer_data) ==
    FacadePresent(IF DOMAIN self.analysis_results = {}
                  THEN facade_analyze_data(self, fetched, peer_data)
                  ELSE [self |-> self, out |-> Ok(<<>>)])

facade_visualize_results(self, fetched, peer_data) ==
    FacadePresent(IF DOMAIN self.analysis_results = {}
                  THEN facade_analyze_data(self, fetched, peer_data)
                  ELSE [self |-> self, out |-> Ok(<<>>)])

(***************************************************************************)
(* The recommendation printed by ResultsReporter.print_results, written by *)
(* ResultsReporter.generate_report and printed by                          *)
(* StockPerformanceModel.print_results                                     *)
(***************************************************************************)
PrintRecommendationFromMinusTwo(score) ==
    IF score <= -2 THEN "BUY"
    ELSE IF score >= -2 /\ score < 0 THEN "HOLD/ACCUMULATE"
    ELSE IF score >= 0 /\ score < 2 THEN "HOLD/WATCH"
    ELSE IF score >= 2 /\ score < 4 THEN "REDUCE"
    ELSE "SELL/AVOID"

PrintRecommendation(score) ==
    IF score < -2 THEN "BUY"
    ELSE IF score >= -2 /\ score < 0 THEN "HOLD/ACCUMULATE"
    ELSE IF score >= 0 /\ score < 2 THEN "HOLD/WATCH"
    ELSE IF score >= 2 /\ score < 4 THEN "REDUCE"
    ELSE "SELL/AVOID"

ReportRecommendation(score) ==
    IF score < -2 THEN "BUY"
    ELSE IF score >= -2 /\ score < 0 THEN "HOLD/ACCUMULATE"
    ELSE IF score >= 0 /\ score < 2 THEN "HOLD/WATCH"
    ELSE IF score >= 2 /\ score < 4 THEN "REDUCE"
    ELSE "SELL/AVOID"

SpmPrintRecommendation(score) ==
    IF score < -2 THEN "BUY"
    ELSE IF score >= -2 /\ score < 0 THEN "HOLD/ACCUMULATE"
    ELSE IF score >= 0 /\ score < 2 THEN "HOLD/WATCH"
    ELSE IF score >= 2 /\ score < 4 THEN "REDUCE"
    ELSE "SELL/AVOID"

\* what print_results prints under SUMMARY RECOMMENDATION
print_results(results) ==
    LET underperformance_assessment == Get(results, "underperformance_assessment", EmptyDict)
    IN IF DOMAIN underperformance_assessment # {}
       THEN PrintRecommendation(Get(underperformance_assessment, "score", 0))
       ELSE "nothing"

\* the Recommendation line of the report
generate_report(results) ==
    LET underperformance == Get(results, "underperformance_assessment", EmptyDict)
    IN ReportRecommendation(Get(underperformance, "score", 0))

spm_print_results(model) ==
    IF DOMAIN model.underperformance_assessment # {}
    THEN SpmPrintRecommendation(Get(model.underperformance_assessment, "score", 0))
    ELSE "nothing"

(***************************************************************************)
(* State                                                                   *)
(***************************************************************************)
VARIABLES
    company_data,                  \* FinancialAnalyzer.company_data, per analyzer
    benchmark_data,                \* FinancialAnalyzer.benchmark_data
    peer_companies,                \* FinancialAnalyzer.peer_companies
    company_metrics,               \* the six result containers
    stock_returns,
    alpha_analysis,
    peer_comparison,
    dcf_valuation,
    underperformance_assessment,
    returned,                      \* per analyzer: the last call, its inputs and its outcome
    analysis_results,              \* ResultsReporter.analysis_results
    spm,                           \* the result fields of the monolithic StockPerformanceModel
    printed,                       \* the recommendation each reporting routine gave last
    facade                         \* the facade StockPerformanceModel of stockPerformanceModel.py

vars == <<company_data, benchmark_data, peer_companies, company_metrics, stock_returns,
          alpha_analysis, peer_comparison, dcf_valuation, underperformance_assessment,
          returned, analysis_results, spm, printed, facade>>

inputVars == <<company_data, benchmark_data, peer_companies>>
resultVars == <<company_metrics, stock_returns, alpha_analysis, peer_comparison,
                dcf_valuation, underperformance_assessment>>
reportVars == <<analysis_results, spm, printed, facade>>

Analyzers == {1, 2}

Self(a) ==
    [company_data |-> company_data[a],
     benchmark_data |-> benchmark_data[a],
     peer_companies |-> peer_companies[a],
     company_metrics |-> company_metrics[a],
     stock_returns |-> stock_returns[a],
     alpha_analysis |-> alpha_analysis[a],
     peer_comparison |-> peer_comparison[a],
     dcf_valuation |-> dcf_valuation[a],
     underperformance_assessment |-> underperformance_assessment[a]]

Inputs(self) == <<self.company_data, self.benchmark_data, self.peer_companies>>

\* the analyzer a takes the fields of self
Store(a, self) ==
    /\ company_data' = [company_data EXCEPT ![a] = self.company_data]
    /\ benchmark_data' = [benchmark_data EXCEPT ![a] = self.benchmark_data]
    /\ peer_companies' = [peer_companies EXCEPT ![a] = self.peer_companies]
    /\ company_metrics' = [company_metrics EXCEPT ![a] = self.company_metrics]
    /\ stock_returns' = [stock_returns EXCEPT ![a] = self.stock_returns]
    /\ alpha_analysis' = [alpha_analysis EXCEPT ![a] = self.alpha_analysis]
    /\ peer_comparison' = [peer_comparison EXCEPT ![a] = self.peer_comparison]
    /\ dcf_valuation' = [dcf_valuation EXCEPT ![a] = self.dcf_valuation]
    /\ underperformance_assessment' =
           [underperformance_assessment EXCEPT ![a] = self.underperformance_assessment]

NoCall == [call |-> "none", args |-> <<>>, exc |-> "none", val |-> <<>>]

(***************************************************************************)
(* Operations                                                              *)
(***************************************************************************)
\* analyzer.run_analysis()
RunAnalysis(a) ==
    \E r \in {run_analysis(Self(a))} :
       /\ Store(a, r.self)
       /\ returned' = [returned EXCEPT ![a] = [call |-> "run_analysis", args |-> Inputs(Self(a)),
                                               exc |-> r.out.exc, val |-> r.out.val]]
       /\ UNCHANGED reportVars

\* a direct call of the scorer that keeps its assessment in the analyzer
AssessUnderperformanceStoring(a) ==
    \E r \in {assess_underperformance(Self(a))} :
       /\ returned' = [returned EXCEPT ![a] = [call |-> "assess_underperformance",
                                               args |-> <<alpha_analysis[a], peer_comparison[a],
                                                          dcf_valuation[a], company_metrics[a]>>,
                                               exc |-> r.exc, val |-> r.val]]
       /\ underperformance_assessment' = [underperformance_assessment EXCEPT ![a] = r.val]
       /\ UNCHANGED <<inputVars, company_metrics, stock_returns, alpha_analysis,
                      peer_comparison, dcf_valuation, reportVars>>

\* analyzer.assess_underperformance(), called directly
AssessUnderperformance(a) ==
    \E r \in {assess_underperformance(Self(a))} :
       /\ returned' = [returned EXCEPT ![a] = [call |-> "assess_underperformance",
                                               args |-> <<alpha_analysis[a], peer_comparison[a],
                                                          dcf_valuation[a], company_metrics[a]>>,
                                               exc |-> r.exc, val |-> r.val]]
       /\ UNCHANGED <<inputVars, resultVars, reportVars>>

\* analyzer.compare_to_peers(analyzer.company_metrics), called directly
ComparePeers(a) ==
    \E r \in {compare_to_peers(Self(a), company_metrics[a])} :
       /\ returned' = [returned EXCEPT ![a] = [call |-> "compare_to_peers",
                                               args |-> <<peer_companies[a], company_metrics[a]>>,
                                               exc |-> r.exc, val |-> r.val]]
       /\ UNCHANGED <<inputVars, resultVars, reportVars>>

\* analyzer.perform_dcf(), called directly
PerformDcf(a) ==
    \E r \in {perform_dcf(Self(a))} :
       /\ returned' = [returned EXCEPT ![a] = [call |-> "perform_dcf",
                                               args |-> <<company_data[a], benchmark_data[a]>>,
                                               exc |-> r.exc, val |-> r.val]]
       /\ UNCHANGED <<inputVars, resultVars, reportVars>>

\* analyzer.calculate_financial_metrics(), called directly
CalculateFinancialMetrics(a) ==
    \E r \in {calculate_financial_metrics(Self(a))} :
       /\ returned' = [returned EXCEPT ![a] = [call |-> "calculate_financial_metrics",
                                               args |-> <<company_data[a]>>,
                                               exc |-> r.exc, val |-> r.val]]
       /\ UNCHANGED <<inputVars, resultVars, reportVars>>

\* analyzer.calculate_stock_returns(), called directly
CalculateStockReturns(a) ==
    \E r \in {calculate_stock_returns(Self(a))} :
       /\ returned' = [returned EXCEPT ![a] = [call |-> "calculate_stock_returns",
                                               args |-> <<company_data[a]>>,
                                               exc |-> r.exc, val |-> r.val]]
       /\ UNCHANGED <<inputVars, resultVars, reportVars>>

\* analyzer.calculate_alpha(company_returns), called directly on the returns of the
\* company, or on the returns the analyzer holds
CalculateAlpha(a) ==
    \E company_returns \in {calculate_stock_returns(Self(a)).val, stock_returns[a]} :
    \E r \in {calculate_alpha(Self(a), company_returns)} :
       /\ returned' = [returned EXCEPT ![a] = [call |-> "calculate_alpha",
                                               args |-> <<benchmark_data[a], company_returns>>,
                                               exc |-> r.exc, val |-> r.val]]
       /\ UNCHANGED <<inputVars, resultVars, reportVars>>

\* model.fetch_all_data(), the providers giving fetched
SpmFetchAllData(fetched) ==
    /\ spm' = [fetch_all_data(spm, fetched) EXCEPT
                  !.returned = [call |-> "fetch_all_data", fetched |-> fetched,
                                exc |-> "none", val |-> <<>>]]
    /\ UNCHANGED <<inputVars, resultVars, returned, analysis_results, printed, facade>>

\* model.run_analysis(), the providers giving fetched
SpmRunAnalysis(fetched) ==
    \E r \in {spm_run_analysis(spm, fetched)} :
       /\ spm' = [r.self EXCEPT
                     !.returned = [call |-> "run_analysis", fetched |-> fetched,
                                   exc |-> r.out.exc, val |-> r.out.val]]
       /\ UNCHANGED <<inputVars, resultVars, returned, analysis_results, printed, facade>>

\* the facade's fetch_data(), the estimator giving fetched
FacadeFetchData(fetched) ==
    /\ facade' = [facade_fetch_data(facade, fetched) EXCEPT
                     !.returned = [call |-> "fetch_data", exc |-> "none", val |-> <<>>]]
    /\ UNCHANGED <<inputVars, resultVars, returned, analysis_results, spm, printed>>

\* a method of the facade has had the outcome r
FacadeCalled(call, r) ==
    /\ facade' = [r.self EXCEPT !.returned = [call |-> call, exc |-> r.out.exc, val |-> r.out.val]]
    /\ UNCHANGED <<inputVars, resultVars, returned, analysis_results, spm, printed>>

\* the facade's analyze_data(), report_results() and visualize_results(); fetch_peer_data
\* gives peer_data
FacadeAnalyzeData(fetched, peer_data) ==
    FacadeCalled("analyze_data", facade_analyze_data(facade, fetched, peer_data))

FacadeReportResults(fetched, peer_data) ==
    FacadeCalled("report_results", facade_report_results(facade, fetched, peer_data))

FacadeVisualizeResults(fetched, peer_data) ==
    FacadeCalled("visualize_results", facade_visualize_results(facade, fetched, peer_data))

\* model.compare_to_peers(model.company_metrics), called directly
SpmComparePeers ==
    \E r \in {spm_compare_to_peers(spm, spm.company_metrics)} :
       /\ spm' = [spm EXCEPT !.returned = [call |-> "compare_to_peers",
                                           args |-> <<spm.peer_companies, spm.company_metrics>>,
                                           exc |-> r.exc, val |-> r.val]]
       /\ UNCHANGED <<inputVars, resultVars, returned, analysis_results, printed, facade>>

\* the owner of the data dictionary the analyzer was built on replaces its content
SetCompanyData(a, cd) ==
    /\ company_data[a] # cd
    /\ company_data' = [company_data EXCEPT ![a] = cd]
    /\ UNCHANGED <<benchmark_data, peer_companies, resultVars, returned, reportVars>>

\* ResultsReporter.print_results()
PrintResults ==
    /\ printed' = [printed EXCEPT !.print_results = print_results(analysis_results)]
    /\ UNCHANGED <<inputVars, resultVars, returned, analysis_results, spm, facade>>

\* ResultsReporter.generate_report()
GenerateReport ==
    /\ printed' = [printed EXCEPT !.generate_report = generate_report(analysis_results)]
    /\ UNCHANGED <<inputVars, resultVars, returned, analysis_results, spm, facade>>

\* StockPerformanceModel.print_results(): a model that holds no company_metrics yet
\* runs its analysis first, on data it fetches, with the outcome run
SpmPrintResults(run) ==
    \E model \in {IF DOMAIN spm.company_metrics = {} THEN run ELSE Ok(spm)} :
       /\ IF model.exc # "none"
          THEN /\ spm' = spm
               /\ printed' = [printed EXCEPT !.spm_print_results = "raised"]
          ELSE /\ spm' = model.val
               /\ printed' = [printed EXCEPT !.spm_print_results = spm_print_results(model.val)]
       /\ UNCHANGED <<inputVars, resultVars, returned, analysis_results, facade>>

(***************************************************************************)
(* Input data                                                              *)
(***************************************************************************)
YearRecord(year, stock_price, shares_outstanding, dividend_per_share, revenue, netIncome, ebitda, totalAssets, totalEquity, totalDebt, cashFlow) ==
    [year |-> year,
     stock_price |-> F(stock_price),
     shares_outstanding |-> F(shares_outstanding),
     dividend_per_share |-> F(dividend_per_share),
     revenue |-> F(revenue),
     netIncome |-> F(netIncome),
     ebitda |-> F(ebitda),
     totalAssets |-> F(totalAssets),
     totalEquity |-> F(totalEquity),
     totalDebt |-> F(totalDebt),
     cashFlow |-> F(cashFlow)]

\* the end-to-end scenario of the specification: one year, no assets and no cash flow given
cdDocumented ==
    [financials |-> <<[year |-> 2024, stock_price |-> F(100), shares_outstanding |-> F(10),
                       netIncome |-> F(50), revenue |-> F(500), totalEquity |-> F(200),
                       totalDebt |-> F(50), ebitda |-> F(80), dividend_per_share |-> F(1)]>>,
     estimates |-> [next_year_eps |-> F(6), long_term_growth_rate |-> Dec(1, 1), target_price |-> F(120)]]

\* three years, growing, cheap against its target
cdGrowing ==
    [financials |-> <<YearRecord(2024, 50, 10, 1, 600, 80, 120, 800, 400, 100, 90),
                      YearRecord(2023, 40, 10, 1, 500, 60, 100, 700, 350, 100, 70),
                      YearRecord(2022, 40, 10, 1, 400, 50, 80, 600, 300, 100, 60)>>,
     estimates |-> [next_year_eps |-> F(9), long_term_growth_rate |-> Dec(2, 1), target_price |-> F(80)]]

\* two years, a loss, a falling price, negative cash flow
cdDeclining ==
    [financials |-> <<YearRecord(2024, 80, 10, 0, 400, -20, 10, 500, 100, 300, -5),
                      YearRecord(2023, 100, 10, 2, 500, 40, 60, 500, 150, 200, 30)>>,
     estimates |-> [next_year_eps |-> F(1), long_term_growth_rate |-> Dec(5, 2), target_price |-> F(90)]]

cdEmpty == [financials |-> <<>>, estimates |-> [target_price |-> F(120)]]
cdAbsent == [estimates |-> [target_price |-> F(120)]]

CompanyInputs == {cdDocumented, cdGrowing, cdDeclining, cdEmpty, cdAbsent}

\* the company data the two analyzers of the pipeline are built on and updated to
PipelineInputs == {cdDocumented, cdDeclining, cdEmpty, cdAbsent}

bmGiven ==
    [market_index |-> <<[year |-> 2024, return |-> Dec(1, 1)], [year |-> 2023, return |-> Dec(5, 2)]>>,
     risk_free_rate |-> Dec(4, 2),
     market_risk_premium |-> Dec(5, 2)]

BenchmarkInputs == {EmptyDict, bmGiven}

Peer(peRatio, priceToSales, priceToBook, evToEbitda, returnOnEquity, returnOnAssets, netMargin, revenueGrowth, debtToEquity) ==
    [current_metrics |->
        [peRatio |-> peRatio, priceToSales |-> priceToSales, priceToBook |-> priceToBook,
         evToEbitda |-> evToEbitda, returnOnEquity |-> returnOnEquity,
         returnOnAssets |-> returnOnAssets, netMargin |-> netMargin,
         revenueGrowth |-> revenueGrowth, debtToEquity |-> debtToEquity]]

peersThree ==
    <<Peer(F(10), F(1), F(1), F(5), Dec(2, 1), Dec(1, 1), Dec(1, 1), Dec(1, 1), Dec(5, 1)),
      Peer(F(20), F(2), F(2), F(10), Dec(25, 2), Dec(12, 2), Dec(15, 2), Dec(2, 1), F(1)),
      Peer(F(30), F(4), F(3), F(12), Dec(3, 1), Dec(2, 1), Dec(2, 1), Dec(3, 1), F(2))>>

PeerInputs == {<<>>, peersThree}

(***************************************************************************)
(* Spec: two analyzers built on the same benchmark and peers, run in any   *)
(* interleaving while the company data they were built on changes          *)
(***************************************************************************)
\* FinancialAnalyzer.__init__: the result containers start empty
Constructed ==
    /\ company_metrics = [a \in Analyzers |-> EmptyDict]
    /\ stock_returns = [a \in Analyzers |-> <<>>]
    /\ alpha_analysis = [a \in Analyzers |-> <<>>]
    /\ peer_comparison = [a \in Analyzers |-> EmptyDict]
    /\ dcf_valuation = [a \in Analyzers |-> EmptyDict]
    /\ underperformance_assessment = [a \in Analyzers |-> EmptyDict]
    /\ returned = [a \in Analyzers |-> NoCall]

\* the facade's __init__
FacadeConstructed ==
    facade = [raw_data |-> EmptyDict, analysis_results |-> EmptyDict,
              financial_analyzer |-> <<>>,
              returned |-> [call |-> "none", exc |-> "none", val |-> <<>>]]

NoReport ==
    /\ FacadeConstructed
    /\ analysis_results = EmptyDict
    /\ spm = [company_metrics |-> EmptyDict, underperformance_assessment |-> EmptyDict]
    /\ printed = [print_results |-> "not called", generate_report |-> "not called",
                  spm_print_results |-> "not called"]

Init ==
    /\ company_data \in [Analyzers -> PipelineInputs]
    /\ \E bm \in BenchmarkInputs : benchmark_data = [a \in Analyzers |-> bm]
    /\ \E peers \in PeerInputs : peer_companies = [a \in Analyzers |-> peers]
    /\ Constructed
    /\ NoReport

Next ==
    \/ \E a \in Analyzers : RunAnalysis(a)
    \/ \E a \in Analyzers : \E cd \in PipelineInputs : SetCompanyData(a, cd)

Spec == Init /\ [][Next]_vars

(***************************************************************************)
(* SpecDegraded: one analyzer built on partial data, where numeric fields  *)
(* of a year, of the estimates, of the benchmark or of the peers are       *)
(* absent or zero, runs the analysis                                       *)
(***************************************************************************)
MaxMissing == 2

NumericYearFields ==
    {"stock_price", "shares_outstanding", "dividend_per_share", "revenue", "netIncome",
     "ebitda", "totalAssets", "totalEquity", "totalDebt", "cashFlow"}
EstimateFields == {"next_year_eps", "long_term_growth_rate", "target_price"}
BenchmarkFields == {"risk_free_rate", "market_risk_premium"}
PeerMetricFields == DOMAIN peersThree[1].current_metrics

\* the dictionary d with the keys in absent removed and the keys in zero set to 0
Without(d, absent, zero) ==
    [k \in DOMAIN d \ absent |-> IF k \in zero THEN Zero ELSE d[k]]

\* the ways to pick the absent and the zero fields among fields: up to MaxMissing
\* of them, or all of them absent, or all of them zero
Missing(fields) ==
    {mz \in (SUBSET fields) \X (SUBSET fields) :
        /\ mz[1] \cap mz[2] = {}
        /\ \/ Cardinality(mz[1] \cup mz[2]) <= MaxMissing
           \/ mz[1] = fields
           \/ mz[2] = fields}

DegradedFinancials(financials) ==
    {[financials EXCEPT ![i] = Without(financials[i], mz[1], mz[2])] :
        i \in 1..Len(financials), mz \in Missing(NumericYearFields)}
    \cup {[i \in 1..Len(financials) |-> Without(financials[i], mz[1], mz[2])] :
            mz \in {<<NumericYearFields, {}>>, <<{}, NumericYearFields>>}}
    \cup {[i \in 1..Len(financials) |-> EmptyDict]}

DegradedCompanyData(cd) ==
    {[cd EXCEPT !.financials = f] : f \in DegradedFinancials(cd.financials)}
    \cup {[cd EXCEPT !.estimates = Without(cd.estimates, mz[1], mz[2])] : mz \in Missing(EstimateFields)}
    \cup {[financials |-> cd.financials],
          [financials |-> [i \in 1..Len(cd.financials) |-> EmptyDict]]}

DegradedMarketIndex(market_index) ==
    {[i \in 1..Len(market_index) |-> Without(market_index[i], mz[1] \cup noYear, mz[2])] :
        mz \in Missing({"return"}), noYear \in {{}, {"year"}}}
    \cup {<<>>, <<EmptyDict>>}

DegradedBenchmarks ==
    {Without(bmGiven, mz[1] \cup {"market_index"}, mz[2]) : mz \in Missing(BenchmarkFields)}
    \cup {[Without(bmGiven, mz[1], mz[2]) EXCEPT !.market_index = mi] :
            mz \in Missing(BenchmarkFields), mi \in DegradedMarketIndex(bmGiven.market_index)}

DegradedPeers ==
    {[i \in 1..Len(peersThree) |->
         [current_metrics |-> Without(peersThree[i].current_metrics, mz[1], mz[2])]] :
        mz \in Missing(PeerMetricFields)}
    \cup {[peersThree EXCEPT ![i] =
               [current_metrics |-> Without(peersThree[i].current_metrics, mz[1], mz[2])]] :
            i \in 1..Len(peersThree), mz \in Missing(PeerMetricFields)}
    \cup {[peersThree EXCEPT ![i] = EmptyDict] : i \in 1..Len(peersThree)}
    \cup {<<>>, <<EmptyDict>>}

\* analyzer 1 is built on the inputs drawn, analyzer 2 on the documented scenario
BuiltOn(cd, bm, peers) ==
    /\ company_data = [a \in Analyzers |-> IF a = 1 THEN cd ELSE cdDocumented]
    /\ benchmark_data = [a \in Analyzers |-> IF a = 1 THEN bm ELSE EmptyDict]
    /\ peer_companies = [a \in Analyzers |-> IF a = 1 THEN peers ELSE <<>>]
    /\ Constructed
    /\ NoReport

InitDegraded ==
    \/ \E cd \in DegradedCompanyData(cdGrowing) \cup DegradedCompanyData(cdDeclining) :
           \E given \in {<<EmptyDict, <<>>>>, <<bmGiven, peersThree>>} :
               BuiltOn(cd, given[1], given[2])
    \/ \E cd \in {cdGrowing, [financials |-> <<EmptyDict>>],
                     [cdGrowing EXCEPT !.financials[1] = Without(@, {"totalDebt"}, {})]} :
           \E bm \in DegradedBenchmarks : \E peers \in PeerInputs : BuiltOn(cd, bm, peers)
    \/ \E peers \in DegradedPeers : BuiltOn(cdGrowing, bmGiven, peers)

NextDegraded == RunAnalysis(1)

SpecDegraded == InitDegraded /\ [][NextDegraded]_vars

(***************************************************************************)
(* SpecScorer: assess_underperformance called on an analyzer whose         *)
(* alpha_analysis, peer_comparison, dcf_valuation and company_metrics hold *)
(* values on and around the thresholds of the scorer                       *)
(***************************************************************************)
MaxPeerKeys == 2

AlphaValues == {Dec(-3, 1), Dec(-501, 4), Dec(-5, 2), Dec(-1, 4), Zero, Dec(1, 1)}
PercentValues == {Dec(-1501, 2), F(-15), F(15), Dec(1501, 2)}
UpsideValues == {Dec(-2, 1), Dec(-1501, 4), Dec(-15, 2), Zero, Dec(15, 2), Dec(1501, 4), Dec(2, 1)}
TargetValues == {Dec(625, 3), Dec(7999, 4), Dec(8, 1), One, Dec(125, 2)}

\* the metrics the scorer looks up in the peer comparison
ScoredMetrics ==
    {valuation_metrics[i] : i \in 1..Len(valuation_metrics)}
    \cup {profitability_metrics[i] : i \in 1..Len(profitability_metrics)}
    \cup {growth_metrics[i] : i \in 1..Len(growth_metrics)}

\* the rule block that looks a metric up
RuleOf(metric) ==
    IF \E i \in 1..Len(valuation_metrics) : valuation_metrics[i] = metric THEN "valuation"
    ELSE IF \E i \in 1..Len(profitability_metrics) : profitability_metrics[i] = metric
    THEN "profitability"
    ELSE "growth"

\* the entry compare_to_peers makes for a company pd percent off a peer median of 100
Compared(pd) ==
    [company_value |-> FAdd(F(100), pd), peer_median |-> F(100), percent_difference |-> pd]

AlphaInputs ==
    {<<>>}
    \cup {<<[year |-> <<2024>>, alpha |-> x]>> : x \in AlphaValues}
    \cup {<<[year |-> <<2024>>, alpha |-> x], [year |-> <<2023>>, alpha |-> Dec(-3, 1)]>> :
            x \in {Zero}}

PeerComparisonInputs ==
    UNION {[keys -> {Compared(pd) : pd \in PercentValues}] :
              keys \in {k \in SUBSET ScoredMetrics : Cardinality(k) <= MaxPeerKeys}}
    \cup {[metric \in ScoredMetrics \cup {"debtToEquity"} |-> Compared(pd)] :
              pd \in PercentValues \cup {Zero}}
    \cup {[metric \in ScoredMetrics |->
              Compared(IF RuleOf(metric) = "valuation" THEN pd[1] ELSE pd[2])] :
              pd \in PercentValues \X PercentValues}

DcfInputs ==
    {EmptyDict, [wacc |-> Dec(9, 2)]}
    \cup {[wacc |-> Dec(9, 2), upside |-> u] : u \in UpsideValues}

MetricsInputs ==
    {EmptyDict} \cup {[current_price_to_target |-> t] : t \in TargetValues}

\* analyzer 1 holds the results drawn, analyzer 2 stays as constructed
Holding(alpha, comparison, dcf, metrics) ==
    /\ company_data = [a \in Analyzers |-> cdDocumented]
    /\ benchmark_data = [a \in Analyzers |-> EmptyDict]
    /\ peer_companies = [a \in Analyzers |-> <<>>]
    /\ company_metrics = [a \in Analyzers |-> IF a = 1 THEN metrics ELSE EmptyDict]
    /\ stock_returns = [a \in Analyzers |-> <<>>]
    /\ alpha_analysis = [a \in Analyzers |-> IF a = 1 THEN alpha ELSE <<>>]
    /\ peer_comparison = [a \in Analyzers |-> IF a = 1 THEN comparison ELSE EmptyDict]
    /\ dcf_valuation = [a \in Analyzers |-> IF a = 1 THEN dcf ELSE EmptyDict]
    /\ underperformance_assessment = [a \in Analyzers |-> EmptyDict]
    /\ returned = [a \in Analyzers |-> NoCall]
    /\ NoReport

InitScorer ==
    \/ \E alpha \in AlphaInputs : \E dcf \in DcfInputs : \E metrics \in MetricsInputs :
           \E comparison \in {EmptyDict, [peRatio |-> Compared(Dec(1501, 2))]} :
               Holding(alpha, comparison, dcf, metrics)
    \/ \E comparison \in PeerComparisonInputs :
           \E rest \in {<<<<[year |-> <<2024>>, alpha |-> Dec(-3, 1)]>>,
                          [wacc |-> Dec(9, 2), upside |-> Dec(-2, 1)],
                          [current_price_to_target |-> One]>>,
                        <<<<[year |-> <<2024>>, alpha |-> Dec(1, 1)]>>,
                          [wacc |-> Dec(9, 2), upside |-> Dec(2, 1)],
                          [current_price_to_target |-> Dec(625, 3)]>>} :
               Holding(rest[1], comparison, rest[2], rest[3])

NextScorer == AssessUnderperformance(1)

SpecScorer == InitScorer /\ [][NextScorer]_vars

(***************************************************************************)
(* SpecReport: a reporter built on the results of an analysis, and the     *)
(* monolithic model, print and write their recommendation                  *)
(***************************************************************************)
\* results with every valuation metric v percent and every profitability and growth
\* metric p percent off the peer median
Analysed(alpha, v, p, upside, target) ==
    [alpha_analysis |-> alpha,
     peer_comparison |-> [metric \in ScoredMetrics |->
                             Compared(IF RuleOf(metric) = "valuation" THEN v ELSE p)],
     dcf_valuation |-> [wacc |-> Dec(9, 2), upside |-> upside],
     company_metrics |-> [current_price_to_target |-> target]]

ReportAlphas == {<<>>, <<[year |-> <<2024>>, alpha |-> Dec(-5, 2)]>>,
                 <<[year |-> <<2024>>, alpha |-> Dec(-3, 1)]>>}

AnalysedInputs ==
    {Analysed(alpha, v, p, upside, target) :
        alpha \in ReportAlphas, v \in {Dec(-1501, 2), F(15), Dec(1501, 2)},
        p \in {Dec(-1501, 2), Dec(1501, 2)}, upside \in {Dec(-2, 1), Dec(15, 2), Dec(2, 1)},
        target \in {Dec(625, 3), One}}

\* what run_analysis returns, as far as the reporter reads it
ResultsOf(self) ==
    [company_metrics |-> self.company_metrics,
     underperformance_assessment |-> assess_underperformance(self).val]

ReportInputs ==
    {EmptyDict, [company_metrics |-> EmptyDict, underperformance_assessment |-> EmptyDict]}
    \cup {ResultsOf(self) : self \in AnalysedInputs}

\* the outcomes of StockPerformanceModel.run_analysis
SpmRuns ==
    {Raise("ValueError")}
    \cup {Ok(ResultsOf(self)) :
              self \in {s \in AnalysedInputs :
                           /\ s.alpha_analysis = <<>>
                           /\ s.peer_comparison.netMargin.percent_difference = Dec(-1501, 2)}}

InitReport ==
    /\ company_data = [a \in Analyzers |-> cdDocumented]
    /\ benchmark_data = [a \in Analyzers |-> EmptyDict]
    /\ peer_companies = [a \in Analyzers |-> <<>>]
    /\ Constructed
    /\ FacadeConstructed
    /\ analysis_results \in ReportInputs
    /\ spm \in {[company_metrics |-> EmptyDict, underperformance_assessment |-> EmptyDict]}
               \cup {ResultsOf(self) : self \in {s \in AnalysedInputs :
                                                     /\ s.alpha_analysis # <<>>
                                                     /\ s.alpha_analysis[1].alpha = Dec(-3, 1)
                                                     /\ s.dcf_valuation.upside = Dec(15, 2)
                                                     /\ s.company_metrics.current_price_to_target = One}}
    /\ printed = [print_results |-> "not called", generate_report |-> "not called",
                  spm_print_results |-> "not called"]

NextReport ==
    \/ PrintResults
    \/ GenerateReport
    \/ \E run \in SpmRuns : SpmPrintResults(run)

SpecReport == InitReport /\ [][NextReport]_vars

(***************************************************************************)
(* SpecPeers: compare_to_peers called on peer lists of up to MaxPeers      *)
(* peers whose metrics are named in either convention, or not at all       *)
(***************************************************************************)
MaxPeers == 4

PeerWith(keys, value) == [current_metrics |-> [k \in keys |-> value]]

PeerKeySets ==
    {{"peRatio", "netMargin"}, {"pe_ratio", "net_margin"}, {"peRatio"}, {"beta", "pe_ratio"}}

\* the peer that decides the metric keys; one peer has no current_metrics
FirstPeers ==
    {PeerWith(keys, value) : keys \in PeerKeySets, value \in {F(-10), Zero, F(20)}}
    \cup {[symbol |-> "PEER"]}

\* the other peers: with every key, or with none of the keys compared
RestPeers ==
    {PeerWith({"peRatio", "pe_ratio", "netMargin", "net_margin", "beta"}, value) :
        value \in {F(10), F(30), F(40)}}
    \cup {PeerWith({"priceToBook"}, F(5))}

PeerLists ==
    {<<>>}
    \cup {<<first>> \o rest :
             first \in FirstPeers, rest \in UNION {[1..n -> RestPeers] : n \in 0..(MaxPeers - 1)}}

\* the company metrics passed: none, or those of a company
ComparedMetrics ==
    {EmptyDict} \cup {calculate_financial_metrics([company_data |-> cd]).val :
                        cd \in {cdDocumented, cdDeclining}}

InitPeers ==
    /\ company_data = [a \in Analyzers |-> cdDocumented]
    /\ benchmark_data = [a \in Analyzers |-> EmptyDict]
    /\ \E peers \in PeerLists : peer_companies = [a \in Analyzers |-> peers]
    /\ \E metrics \in ComparedMetrics :
           company_metrics = [a \in Analyzers |-> IF a = 1 THEN metrics ELSE EmptyDict]
    /\ stock_returns = [a \in Analyzers |-> <<>>]
    /\ alpha_analysis = [a \in Analyzers |-> <<>>]
    /\ peer_comparison = [a \in Analyzers |-> EmptyDict]
    /\ dcf_valuation = [a \in Analyzers |-> EmptyDict]
    /\ underperformance_assessment = [a \in Analyzers |-> EmptyDict]
    /\ returned = [a \in Analyzers |-> NoCall]
    /\ NoReport

NextPeers == ComparePeers(1)

SpecPeers == InitPeers /\ [][NextPeers]_vars

(***************************************************************************)
(* SpecDcf: perform_dcf called on current years with and without a         *)
(* positive cash flow, income, revenue and capital, on benchmarks that put *)
(* the WACC above, on and below the terminal growth rate                   *)
(***************************************************************************)
\* a current year; cash is <<>> for a year without cashFlow
DcfYear(cash, netIncome, revenue, stock_price, shares_outstanding, totalDebt) ==
    (IF cash = <<>> THEN EmptyDict ELSE [cashFlow |-> F(cash[1])])
    @@ [year |-> 2024, netIncome |-> F(netIncome), revenue |-> F(revenue),
        stock_price |-> F(stock_price), shares_outstanding |-> F(shares_outstanding),
        totalDebt |-> F(totalDebt)]

DcfYears ==
    {DcfYear(cash, netIncome, revenue, market[1], market[2], totalDebt) :
        cash \in {<<>>, <<-5>>, <<90>>}, netIncome \in {-20, 0, 50}, revenue \in {0, 500},
        market \in {<<100, 10>>, <<0, 10>>, <<100, 0>>}, totalDebt \in {-50, 0, 50}}

DcfEstimates == {EmptyDict, [long_term_growth_rate |-> Dec(2, 1)]}

DcfCompanyData ==
    {[financials |-> <<current_year>>, estimates |-> estimates] :
        current_year \in DcfYears, estimates \in DcfEstimates}

\* no rates, rates given, rates that put the cost of equity at 3% and at 1%, and a
\* risk-free rate alone
DcfBenchmarks ==
    {EmptyDict, bmGiven,
     [risk_free_rate |-> Dec(3, 2), market_risk_premium |-> Zero],
     [risk_free_rate |-> Dec(1, 2), market_risk_premium |-> Zero],
     [risk_free_rate |-> Dec(4, 2)]}

InitDcf ==
    /\ \E cd \in DcfCompanyData : company_data = [a \in Analyzers |-> cd]
    /\ \E bm \in DcfBenchmarks : benchmark_data = [a \in Analyzers |-> bm]
    /\ peer_companies = [a \in Analyzers |-> <<>>]
    /\ Constructed
    /\ NoReport

NextDcf == PerformDcf(1)

SpecDcf == InitDcf /\ [][NextDcf]_vars

(***************************************************************************)
(* SpecMetrics: calculate_financial_metrics called on the documented       *)
(* scenario and on years whose denominators are zero or negative           *)
(***************************************************************************)
MetricsYears ==
    {[year |-> 2024, dividend_per_share |-> F(1), totalDebt |-> F(50),
      stock_price |-> F(market[1]), shares_outstanding |-> F(market[2]),
      netIncome |-> F(income[1]), revenue |-> F(income[2]), ebitda |-> F(income[3]),
      totalEquity |-> F(balance[1]), totalAssets |-> F(balance[2])] :
        market \in {100, 0} \X {10, 0},
        income \in {50, 0, -20} \X {500, 0} \X {80, -10},
        balance \in {200, 0, -200} \X {1000, 0}}

MetricsEstimates ==
    {[next_year_eps |-> F(eps), target_price |-> F(target), long_term_growth_rate |-> Dec(1, 1)] :
        eps \in {6, -1}, target \in {120, 0}}

MetricsCompanyData ==
    {[financials |-> <<current_year>>, estimates |-> estimates] :
        current_year \in MetricsYears, estimates \in MetricsEstimates}

InitMetrics ==
    /\ \E cd \in MetricsCompanyData : company_data = [a \in Analyzers |-> cd]
    /\ benchmark_data = [a \in Analyzers |-> EmptyDict]
    /\ peer_companies = [a \in Analyzers |-> <<>>]
    /\ Constructed
    /\ NoReport

NextMetrics == CalculateFinancialMetrics(1)

SpecMetrics == InitMetrics /\ [][NextMetrics]_vars

(***************************************************************************)
(* SpecHistory: one analyzer built on zero to three years of financials,   *)
(* with estimates and benchmark years present or missing; its methods are  *)
(* called directly, in any order, before and after run_analysis            *)
(***************************************************************************)
HistoryCurrentYears ==
    {YearRecord(2024, 100, 10, 1, 500, 50, 80, 1000, 200, 50, 0),
     YearRecord(2024, 60, 10, 0, 300, -20, 10, 500, 100, 300, -5)}

\* the year before: positive, zero and negative values, and a record with no fields
HistoryPreviousYears ==
    {YearRecord(2023, 80, 10, 1, 400, 40, 60, 900, 180, 50, 30),
     YearRecord(2023, 0, 10, 1, 0, 0, 0, 0, 0, 0, 0),
     YearRecord(2023, -10, 10, 1, -100, -10, 0, 0, 0, 0, 0),
     YearRecord(2023, 80, 10, 1, 400, -10, 60, 900, 180, 50, 30),
     EmptyDict}

HistoryOldestYear == YearRecord(2022, 50, 10, 1, 250, 25, 40, 800, 160, 50, 20)

HistoryFinancials ==
    {<<>>}
    \cup {<<c>> : c \in HistoryCurrentYears}
    \cup {<<c, p>> : c \in HistoryCurrentYears, p \in HistoryPreviousYears}
    \cup {<<c, p, HistoryOldestYear>> : c \in HistoryCurrentYears, p \in HistoryPreviousYears}

HistoryEstimates ==
    {[next_year_eps |-> F(6), long_term_growth_rate |-> Dec(2, 1), target_price |-> F(120)],
     [next_year_eps |-> F(6), target_price |-> F(120)],
     [long_term_growth_rate |-> Dec(2, 1)],
     EmptyDict}

HistoryCompanyData ==
    {[financials |-> financials, estimates |-> estimates] :
        financials \in HistoryFinancials, estimates \in HistoryEstimates}
    \cup {[financials |-> financials] : financials \in HistoryFinancials}

\* benchmark series: none, empty, every year, the most recent year missing, a year
\* given twice, no year of the company, an entry without a return
HistoryMarketIndexes ==
    {<<>>,
     <<[year |-> 2024, return |-> Dec(1, 1)], [year |-> 2023, return |-> Dec(5, 2)]>>,
     <<[year |-> 2023, return |-> Dec(9, 1)]>>,
     <<[year |-> 2024, return |-> Dec(1, 1)], [year |-> 2024, return |-> Dec(9, 1)]>>,
     <<[year |-> 2021, return |-> Dec(1, 1)]>>,
     <<[year |-> 2024], [year |-> 2023, return |-> Dec(-2, 1)]>>}

HistoryBenchmarks ==
    {EmptyDict} \cup {[market_index |-> market_index] : market_index \in HistoryMarketIndexes}

InitHistory ==
    /\ \E cd \in HistoryCompanyData : company_data = [a \in Analyzers |-> cd]
    /\ \E bm \in HistoryBenchmarks : benchmark_data = [a \in Analyzers |-> bm]
    /\ peer_companies = [a \in Analyzers |-> peersThree]
    /\ Constructed
    /\ NoReport

NextHistory ==
    \/ CalculateFinancialMetrics(1)
    \/ CalculateStockReturns(1)
    \/ CalculateAlpha(1)
    \/ ComparePeers(1)
    \/ PerformDcf(1)
    \/ AssessUnderperformance(1)
    \/ RunAnalysis(1)

SpecHistory == InitHistory /\ [][NextHistory]_vars

(***************************************************************************)
(* SpecFetch: a StockPerformanceModel fetches and analyses, each provider  *)
(* giving data or failing                                                  *)
(***************************************************************************)
\* what the price provider gives for a year
FetchedPrice(year) ==
    [year |-> year, stock_price |-> F(100 - 10 * (SpmYear - year)),
     shares_outstanding |-> F(10), dividend_per_share |-> F(1)]

FetchedPrices ==
    {<<>>,
     <<FetchedPrice(SpmYear)>>,
     <<FetchedPrice(SpmYear), FetchedPrice(SpmYear - 1), FetchedPrice(SpmYear - 2)>>,
     <<FetchedPrice(SpmYear - 1), FetchedPrice(SpmYear - 2)>>}

FetchedIncome ==
    {<<>>,
     <<[date |-> <<SpmYear, 12, 31>>, revenue |-> F(500), netIncome |-> F(50), ebitda |-> F(80)],
       [date |-> <<SpmYear - 1, 12, 31>>, revenue |-> F(400), netIncome |-> F(40),
        ebitda |-> F(60)]>>}

\* the balance sheets and the cash flow statements
FetchedStatements ==
    {<<<<>>, <<>>>>,
     <<<<[date |-> <<SpmYear, 12, 31>>, totalAssets |-> F(1000), totalEquity |-> F(200),
          shortTermDebt |-> F(20), longTermDebt |-> F(30)]>>,
       <<[date |-> <<SpmYear, 12, 31>>, operatingCashFlow |-> F(90)]>>>>}

FetchedEstimates ==
    {<<>>, <<[estimatedEpsAvg |-> F(6), estimatedGrowthRate |-> F(10), targetPriceAvg |-> F(120)]>>}

Fetched ==
    {[profile |-> [companyName |-> "Acme", sector |-> "Technology", industry |-> "Software"],
      stock_prices |-> stock_prices,
      income_statement |-> income_statement,
      balance_sheet |-> statements[1],
      cash_flow |-> statements[2],
      estimates |-> estimates,
      benchmark_data |-> bmGiven,
      peer_companies |-> peersThree] :
        stock_prices \in FetchedPrices, income_statement \in FetchedIncome,
        statements \in FetchedStatements, estimates \in FetchedEstimates}

\* StockPerformanceModel.__init__
SpmConstructed ==
    [ticker |-> "ACME", company_data |-> EmptyDict, benchmark_data |-> EmptyDict,
     peer_companies |-> <<>>, company_metrics |-> EmptyDict, stock_returns |-> <<>>,
     alpha_analysis |-> <<>>, peer_comparison |-> EmptyDict,
     dcf_valuation |-> EmptyDict, underperformance_assessment |-> EmptyDict,
     returned |-> [call |-> "none", fetched |-> <<>>, exc |-> "none", val |-> <<>>]]

InitFetch ==
    /\ company_data = [a \in Analyzers |-> cdDocumented]
    /\ benchmark_data = [a \in Analyzers |-> EmptyDict]
    /\ peer_companies = [a \in Analyzers |-> <<>>]
    /\ Constructed
    /\ analysis_results = EmptyDict
    /\ printed = [print_results |-> "not called", generate_report |-> "not called",
                  spm_print_results |-> "not called"]
    /\ FacadeConstructed
    /\ spm = SpmConstructed

NextFetch ==
    \/ \E fetched \in Fetched : SpmFetchAllData(fetched)
    \/ \E fetched \in Fetched : SpmRunAnalysis(fetched)

SpecFetch == InitFetch /\ [][NextFetch]_vars

(***************************************************************************)
(* SpecFacade: the facade's methods called in any order                    *)
(***************************************************************************)
\* what AnalystEstimator.fetch_analyst_estimates returns: estimates and company data,
\* the defaults of a failed fetch among them
FacadeFetched ==
    {<<[next_year_eps |-> F(eps), long_term_growth_rate |-> growth, target_price |-> F(target)],
       cd>> :
        eps \in {0, 6}, growth \in {Dec(1, 1), Dec(2, 1), Dec(3, 1)}, target \in {0, 120},
        cd \in {EmptyDict,
                [shares_outstanding |-> F(10), net_income |-> F(50), stock_price |-> F(100)],
                [shares_outstanding |-> F(0), net_income |-> F(0), stock_price |-> F(0)]}}

\* what fetch_peer_data returns
FacadePeers ==
    {<<>>,
     <<[ticker |-> "PEER",
        metrics |-> [next_year_eps |-> F(5), long_term_growth_rate |-> Dec(1, 1),
                     target_price |-> F(90)],
        company_data |-> EmptyDict]>>}

InitFacade ==
    /\ company_data = [a \in Analyzers |-> cdDocumented]
    /\ benchmark_data = [a \in Analyzers |-> EmptyDict]
    /\ peer_companies = [a \in Analyzers |-> <<>>]
    /\ Constructed
    /\ NoReport

NextFacade ==
    \/ \E fetched \in FacadeFetched : FacadeFetchData(fetched)
    \/ \E fetched \in FacadeFetched : \E peer_data \in FacadePeers :
          FacadeAnalyzeData(fetched, peer_data)
    \/ \E fetched \in FacadeFetched : \E peer_data \in FacadePeers :
          FacadeReportResults(fetched, peer_data)
    \/ \E fetched \in FacadeFetched : \E peer_data \in FacadePeers :
          FacadeVisualizeResults(fetched, peer_data)

SpecFacade == InitFacade /\ [][NextFacade]_vars

(***************************************************************************)
(* SpecVariants: a FinancialAnalyzer built on the data a                   *)
(* StockPerformanceModel has fetched, both analysing                       *)
(***************************************************************************)
\* peer lists whose metric keys are camelCase, snake_case, both, or unknown
VariantPeers ==
    {<<>>,
     peersThree,
     <<PeerWith({"pe_ratio", "net_margin", "revenue_growth"}, Dec(1, 1)),
       PeerWith({"pe_ratio", "net_margin", "revenue_growth"}, F(30))>>,
     <<PeerWith({"beta", "pe_ratio", "peRatio", "debtToEquity"}, F(10))>>}

VariantFetched ==
    {[fetched EXCEPT !.peer_companies = peers] :
        fetched \in {f \in Fetched : /\ Len(f.stock_prices) \in {0, 3}
                                     /\ (f.stock_prices = <<>>) = (f.income_statement = <<>>)
                                     /\ (f.stock_prices = <<>>) = (f.balance_sheet = <<>>)
                                     /\ (f.stock_prices = <<>>) = (f.estimates = <<>>)},
        peers \in VariantPeers}

InitVariants ==
    /\ \E fetched \in VariantFetched :
          /\ spm = [fetch_all_data(SpmConstructed, fetched) EXCEPT
                       !.returned = [call |-> "fetch_all_data", fetched |-> fetched,
                                     exc |-> "none", val |-> <<>>]]
          /\ company_data = [a \in Analyzers |-> fetch_all_data(SpmConstructed, fetched).company_data]
          /\ benchmark_data = [a \in Analyzers |-> fetched.benchmark_data]
          /\ peer_companies = [a \in Analyzers |-> fetched.peer_companies]
    /\ Constructed
    /\ FacadeConstructed
    /\ analysis_results = EmptyDict
    /\ printed = [print_results |-> "not called", generate_report |-> "not called",
                  spm_print_results |-> "not called"]

NextVariants ==
    \/ RunAnalysis(1)
    \/ ComparePeers(1)
    \/ \E fetched \in VariantFetched : SpmRunAnalysis(fetched)
    \/ SpmComparePeers

SpecVariants == InitVariants /\ [][NextVariants]_vars

(***************************************************************************)
(* Properties of run_analysis                                              *)
(***************************************************************************)
ResultFields(a) ==
    <<company_metrics[a], stock_returns[a], alpha_analysis[a], peer_comparison[a],
      dcf_valuation[a], underperformance_assessment[a]>>

NoFinancials(cd) == "financials" \notin DOMAIN cd \/ cd.financials = <<>>

RanAnalysis(a) == returned'[a] # returned[a] /\ returned'[a].call = "run_analysis"

\* C1: run_analysis on company data whose financials are absent or empty raises
\* ValueError, and the six result fields of the analyzer are after the call what
\* they were before it, results of an earlier successful run included.
C1_FailsBeforeAssigning ==
    [][\A a \in Analyzers :
          RanAnalysis(a) /\ NoFinancials(company_data[a])
          => /\ returned'[a].exc = "ValueError"
             /\ ResultFields(a)' = ResultFields(a)]_vars

\* a run has failed with ValueError on an analyzer that still holds the results of
\* an earlier successful run
C1_Witness ==
    \E a \in Analyzers :
        /\ returned[a].call = "run_analysis"
        /\ NoFinancials(returned[a].args[1])
        /\ returned[a].exc = "ValueError"
        /\ DOMAIN company_metrics[a] # {}
        /\ DOMAIN dcf_valuation[a] # {}
        /\ DOMAIN underperformance_assessment[a] # {}

\* the field k of d is absent or zero
NoValue(d, k) == Get(d, k, Zero) = Zero

SafeMetrics(current_year, previous_year, estimates, m) ==
    /\ NoValue(current_year, "revenue") => m.net_margin = Zero /\ m.price_to_sales = Zero
    /\ NoValue(current_year, "totalEquity")
       => m.return_on_equity = Zero /\ m.price_to_book = Zero /\ m.debt_to_equity = Zero
    /\ NoValue(current_year, "totalAssets") => m.return_on_assets = Zero
    /\ NoValue(previous_year, "revenue") => m.revenue_growth = Zero
    /\ NoValue(previous_year, "netIncome") => m.net_income_growth = Zero
    /\ NoValue(current_year, "shares_outstanding")
       => m.pe_ratio = Zero /\ m.payout_ratio = Zero /\ m.earnings_per_share = Zero
    /\ NoValue(current_year, "netIncome") => m.pe_ratio = Zero /\ m.payout_ratio = Zero
    /\ NoValue(current_year, "ebitda") => m.ev_to_ebitda = Zero
    /\ NoValue(estimates, "target_price") => m.current_price_to_target = One
    /\ NoValue(current_year, "stock_price") => m.dividend_yield = Zero
    /\ NoValue(estimates, "next_year_eps") => m.forward_pe = Zero
    /\ NoValue(estimates, "long_term_growth_rate") \/ m.pe_ratio = Zero => m.peg_ratio = Zero

SafeReturns(financials, returns) ==
    \A i \in 1..Len(returns) :
        NoValue(financials[i + 1], "stock_price")
        => returns[i].price_return = Zero /\ returns[i].dividend_return = Zero
           /\ returns[i].total_return = Zero

SafePeers(comparison) ==
    \A metric \in DOMAIN comparison :
        comparison[metric].peer_median = Zero => comparison[metric].percent_difference = Zero

SafeDcf(current_year, dcf) ==
    /\ NoValue(current_year, "shares_outstanding") => dcf.implied_share_price = Zero
    /\ NoValue(current_year, "stock_price") => dcf.upside = Zero

SafeDefaults(cd, val) ==
    /\ SafeMetrics(cd.financials[1],
                   IF Len(cd.financials) > 1 THEN cd.financials[2] ELSE EmptyDict,
                   Get(cd, "estimates", EmptyDict),
                   val.company_metrics)
    /\ SafeReturns(cd.financials, val.stock_returns)
    /\ SafePeers(val.peer_comparison)
    /\ SafeDcf(cd.financials[1], val.dcf_valuation)

\* C2: on a non-empty financials sequence run_analysis never raises, whichever
\* numeric fields of the years, the estimates, the benchmark or the peers are absent
\* or zero: it returns the six result entries, and every ratio whose denominator is
\* absent or zero has its default, 0, or 1 for current_price_to_target.
C2_DegradesGracefully ==
    \A a \in Analyzers :
        returned[a].call = "run_analysis" /\ ~NoFinancials(returned[a].args[1])
        => /\ returned[a].exc = "none"
           /\ DOMAIN returned[a].val =
                  {"company_metrics", "stock_returns", "alpha_analysis", "peer_comparison",
                   "dcf_valuation", "underperformance_assessment"}
           /\ SafeDefaults(returned[a].args[1], returned[a].val)

\* a run has completed on a current year without revenue and with an equity of zero,
\* on a benchmark without rates
C2_Witness ==
    /\ returned[1].call = "run_analysis"
    /\ returned[1].exc = "none"
    /\ "revenue" \notin DOMAIN returned[1].args[1].financials[1]
    /\ Get(returned[1].args[1].financials[1], "totalEquity", One) = Zero
    /\ returned[1].val.company_metrics.net_margin = Zero
    /\ returned[1].val.company_metrics.price_to_book = Zero

\* C3: the assessment in the result of a completed run is the scorer's output on
\* the company_metrics, alpha_analysis, peer_comparison and dcf_valuation of that
\* same result, and all six entries of the result are the fields the analyzer
\* holds after the run.
C3_AssessmentFromSameRun ==
    \A a \in Analyzers :
        returned[a].call = "run_analysis" /\ returned[a].exc = "none"
        => /\ returned[a].val.underperformance_assessment
                  = assess_underperformance(returned[a].val).val
           /\ returned[a].val = Results(Self(a))

\* a run has completed with a peer comparison and a DCF valuation that both count
\* in its assessment
C3_Witness ==
    \E a \in Analyzers :
        /\ returned[a].call = "run_analysis"
        /\ returned[a].exc = "none"
        /\ DOMAIN returned[a].val.peer_comparison # {}
        /\ FLt(returned[a].val.dcf_valuation.upside, Dec(-15, 2))
        /\ returned[a].val.underperformance_assessment.score >= 4

\* C4: run_analysis leaves company_data, benchmark_data and peer_companies as they
\* are, and its outcome is a function of these three inputs: two runs on equal
\* inputs, by one analyzer or by two, in any interleaving, return equal results.
C4_PureAndDeterministic ==
    /\ [](\A a, b \in Analyzers :
             /\ returned[a].call = "run_analysis"
             /\ returned[b].call = "run_analysis"
             /\ returned[a].args = returned[b].args
             => returned[a] = returned[b])
    /\ [][\A a \in Analyzers :
             /\ RanAnalysis(a)
                => Inputs(Self(a))' = Inputs(Self(a)) /\ returned'[a].args = Inputs(Self(a))
             /\ returned[a].call = "run_analysis" /\ returned'[a].args = returned[a].args
                => returned'[a] = returned[a]]_vars

\* both analyzers have completed a run on equal inputs, one of them on data that
\* has been replaced since
C4_Witness ==
    /\ returned[1].call = "run_analysis"
    /\ returned[2].call = "run_analysis"
    /\ returned[1].exc = "none"
    /\ returned[1].args = returned[2].args
    /\ returned[1].val = returned[2].val
    /\ company_data[1] # company_data[2]

(***************************************************************************)
(* Properties of the scorer                                                *)
(***************************************************************************)
\* the fields the scorer reads, as passed to the call recorded in returned
ScorerSelf(args) ==
    [alpha_analysis |-> args[1], peer_comparison |-> args[2],
     dcf_valuation |-> args[3], company_metrics |-> args[4]]

Assessed(a) == returned[a].call = "assess_underperformance" /\ returned[a].exc = "none"

NoScore == [score |-> 0, factors |-> <<>>]
ScoreOf(self) == assess_underperformance(self).val.score
Contribution(rule, self) == ApplyRule(rule, self, NoScore).score

\* the order of the code with two rule blocks exchanged, turned, or reversed
RuleOrders ==
    {[i \in 1..Len(RuleOrder) |->
         RuleOrder[IF i = j THEN k ELSE IF i = k THEN j ELSE i]] :
        j, k \in 1..Len(RuleOrder)}
    \cup {[i \in 1..Len(RuleOrder) |-> RuleOrder[((i + k) % Len(RuleOrder)) + 1]] :
            k \in 1..Len(RuleOrder)}
    \cup {[i \in 1..Len(RuleOrder) |-> RuleOrder[Len(RuleOrder) + 1 - i]]}

\* the scores a rule block can find when its turn comes
MaxScore == 12
ScoresSoFar == {[score |-> n, factors |-> <<>>] : n \in (0 - MaxScore)..MaxScore}

SameOutcome(acc, score, factors) == acc.score = score /\ Range(acc.factors) = Range(factors)

\* the score moves from self to changed by the difference of the contributions of rule
MovesBy(rule, self, score, changed) ==
    ScoreOf(changed) - score = Contribution(rule, changed) - Contribution(rule, self)

\* the rule block adds c to whatever score it finds
Adds(rule, self, c) == \A acc \in ScoresSoFar : ApplyRule(rule, self, acc).score = acc.score + c

Additive(self, score, factors) ==
    /\ \A order \in RuleOrders : SameOutcome(ApplyRules(order, self, NoScore), score, factors)
    /\ \A i \in 1..Len(RuleOrder) : Adds(RuleOrder[i], self, Contribution(RuleOrder[i], self))
    /\ \A alpha \in AlphaInputs : MovesBy("alpha", self, score, [self EXCEPT !.alpha_analysis = alpha])
    /\ \A dcf \in DcfInputs : MovesBy("dcf", self, score, [self EXCEPT !.dcf_valuation = dcf])
    /\ \A metrics \in MetricsInputs :
           MovesBy("target", self, score, [self EXCEPT !.company_metrics = metrics])
    /\ \A metric \in ScoredMetrics : \A pd \in PercentValues :
           MovesBy(RuleOf(metric), self, score,
                   [self EXCEPT !.peer_comparison = (metric :> Compared(pd)) @@ @])
    /\ "upside" \in DOMAIN self.dcf_valuation /\ self.dcf_valuation.upside = Dec(2, 1)
       => ScoreOf([self EXCEPT !.dcf_valuation.upside = Dec(-2, 1)]) = score + 4

\* C5: the score is the sum of the contributions of the rules: every rule block adds
\* its contribution whatever the score it finds, so applying the rule blocks in
\* another order gives the same score and the same factors in another order,
\* changing the input of one rule changes the score by the difference of that
\* rule's contributions, and a DCF upside of -20% instead of +20% adds exactly 4.
C5_Additive ==
    \A a \in Analyzers :
        Assessed(a)
        => Additive(ScorerSelf(returned[a].args), returned[a].val.score, returned[a].val.factors)

\* an assessment has been made of a DCF upside of +20% together with an alpha, a
\* peer comparison and a price below target that all count
C5_Witness ==
    \E a \in Analyzers :
        /\ Assessed(a)
        /\ "upside" \in DOMAIN returned[a].args[3]
        /\ returned[a].args[3].upside = Dec(2, 1)
        /\ DOMAIN returned[a].args[2] # {}
        /\ Len(returned[a].val.factors) >= 4

\* whether pd is beyond the threshold on the side of sign; inclusive counts the
\* threshold itself
Beyond(pd, sign, inclusive) ==
    IF sign < 0
    THEN FLt(pd, F(-15)) \/ (inclusive /\ pd = F(-15))
    ELSE FGt(pd, F(15)) \/ (inclusive /\ pd = F(15))

\* the contribution stated for a metric that is pd percent off the peer median
StatedContribution(metric, pd, inclusive) ==
    IF metric \notin ScoredMetrics THEN 0
    ELSE IF RuleOf(metric) = "valuation"
    THEN (IF Beyond(pd, -1, inclusive) THEN -1 ELSE IF Beyond(pd, 1, inclusive) THEN 1 ELSE 0)
    ELSE (IF Beyond(pd, -1, inclusive) THEN 1 ELSE 0)

RECURSIVE StatedPeerScore(_, _, _)
StatedPeerScore(comparison, metrics, inclusive) ==
    IF metrics = {} THEN 0
    ELSE LET metric == CHOOSE m \in metrics : TRUE
         IN StatedContribution(metric, comparison[metric].percent_difference, inclusive)
            + StatedPeerScore(comparison, metrics \ {metric}, inclusive)

\* the peer comparison reduced to one metric
Only(comparison, metric) == [m \in {metric} |-> comparison[m]]

PeerRules(self, score, inclusive) ==
    /\ \A metric \in DOMAIN self.peer_comparison \cap ScoredMetrics :
           Contribution(RuleOf(metric), [self EXCEPT !.peer_comparison = Only(@, metric)])
               = StatedContribution(metric, self.peer_comparison[metric].percent_difference,
                                    inclusive)
    /\ score = Contribution("alpha", self) + Contribution("dcf", self)
                  + Contribution("target", self)
                  + StatedPeerScore(self.peer_comparison, DOMAIN self.peer_comparison, inclusive)

\* C6 as stated: a metric exactly 15% off the peer median counts as 15% or more off.
C6_PeerRulesInclusive ==
    \A a \in Analyzers :
        Assessed(a) => PeerRules(ScorerSelf(returned[a].args), returned[a].val.score, TRUE)

\* C6, amended: a valuation metric of the peer comparison contributes -1 when its
\* percent_difference is below -15 and +1 when it is above 15; a profitability
\* metric and revenue growth contribute +1 when below -15; a metric exactly 15% off
\* the median, a profitability or growth metric above it, and any other metric
\* contribute 0.
C6_PeerRules ==
    \A a \in Analyzers :
        Assessed(a) => PeerRules(ScorerSelf(returned[a].args), returned[a].val.score, FALSE)

\* an assessment has been made of a valuation metric exactly 15% below the peer
\* median together with a profitability metric more than 15% below it
C6_Witness ==
    \E a \in Analyzers :
        /\ Assessed(a)
        /\ \E v \in DOMAIN returned[a].args[2] :
               RuleOf(v) = "valuation" /\ returned[a].args[2][v].percent_difference = F(-15)
        /\ \E p \in DOMAIN returned[a].args[2] :
               /\ RuleOf(p) = "profitability"
               /\ returned[a].args[2][p].percent_difference = Dec(-1501, 2)

\* the sum of the contributions of the rule blocks of order
RECURSIVE Contributions(_, _)
Contributions(order, self) ==
    IF order = <<>> THEN 0
    ELSE Contribution(Head(order), self) + Contributions(Tail(order), self)

\* what the rule blocks other than rule contribute
OtherThan(rule, self) == Contributions(SelectSeq(RuleOrder, LAMBDA r : r # rule), self)

\* the factors of the list that quote one of the messages named
FactorsNamed(factors, names) == {i \in 1..Len(factors) : factors[i].factor \in names}

AlphaFactors == {"underperformed the market", "slightly underperformed the market"}

StatedAlpha(alpha) ==
    IF alpha = <<>> THEN 0
    ELSE IF FLt(alpha[1].alpha, Dec(-5, 2)) THEN 2
    ELSE IF FLe(Dec(-5, 2), alpha[1].alpha) /\ FLt(alpha[1].alpha, Zero) THEN 1
    ELSE 0

AlphaRule(self, val) ==
    /\ Contribution("alpha", self) = StatedAlpha(self.alpha_analysis)
    /\ val.score = StatedAlpha(self.alpha_analysis) + OtherThan("alpha", self)
    /\ Cardinality(FactorsNamed(val.factors, AlphaFactors))
           = IF StatedAlpha(self.alpha_analysis) = 0 THEN 0 ELSE 1
    /\ self.alpha_analysis # <<>> /\ self.alpha_analysis[1].alpha = Dec(-5, 2)
       => Contribution("alpha", self) = 1
    /\ self.alpha_analysis # <<>> /\ FGe(self.alpha_analysis[1].alpha, Zero)
       => Contribution("alpha", self) = 0

\* C7: the first entry of a non-empty alpha sequence contributes +2 when its alpha is
\* below -0.05, +1 when it is in [-0.05, 0), so +1 at exactly -0.05, and 0 when it
\* is 0 or more; an empty alpha sequence contributes 0 and adds no factor.
C7_AlphaRule ==
    \A a \in Analyzers :
        Assessed(a) => AlphaRule(ScorerSelf(returned[a].args), returned[a].val)

\* an assessment has been made of an alpha of exactly -5%, which counted as mild
C7_Witness ==
    \E a \in Analyzers :
        /\ Assessed(a)
        /\ returned[a].args[1] # <<>>
        /\ returned[a].args[1][1].alpha = Dec(-5, 2)
        /\ \E i \in 1..Len(returned[a].val.factors) :
               returned[a].val.factors[i].factor = "slightly underperformed the market"

DcfFactors == {"DCF suggests undervalued", "DCF suggests overvalued"}
TargetFactors == {"below analyst target price"}

StatedDcf(dcf) ==
    IF "upside" \notin DOMAIN dcf THEN 0
    ELSE IF FGt(dcf.upside, Dec(15, 2)) THEN -2
    ELSE IF FLt(dcf.upside, Dec(-15, 2)) THEN 2
    ELSE 0

StatedTarget(metrics) ==
    IF "current_price_to_target" \notin DOMAIN metrics THEN 0
    ELSE IF FLt(metrics.current_price_to_target, Dec(8, 1)) THEN -1
    ELSE 0

StrictRules(self, val) ==
    /\ Contribution("dcf", self) = StatedDcf(self.dcf_valuation)
    /\ Contribution("target", self) = StatedTarget(self.company_metrics)
    /\ val.score = StatedDcf(self.dcf_valuation) + OtherThan("dcf", self)
    /\ val.score = StatedTarget(self.company_metrics) + OtherThan("target", self)
    /\ Get(self.dcf_valuation, "upside", Zero) \in {Dec(15, 2), Dec(-15, 2)}
       => FactorsNamed(val.factors, DcfFactors) = {}
    /\ Get(self.company_metrics, "current_price_to_target", Zero) \in {Dec(8, 1), One}
       => FactorsNamed(val.factors, TargetFactors) = {}
    /\ Contribution("target", self) <= 0

\* C8: the DCF upside contributes -2 only when it is above 0.15 and +2 only when it
\* is below -0.15, so 0 at exactly 0.15 and at exactly -0.15; the price to target
\* ratio contributes -1 only when it is below 0.8, so 0 at exactly 0.8, never a
\* positive amount, and nothing at the parity default 1.
C8_StrictRules ==
    \A a \in Analyzers :
        Assessed(a) => StrictRules(ScorerSelf(returned[a].args), returned[a].val)

\* an assessment has been made of an upside of exactly 15% and a price of exactly 0.8
\* of the target, and neither counted
C8_Witness ==
    \E a \in Analyzers :
        /\ Assessed(a)
        /\ Get(returned[a].args[3], "upside", Zero) = Dec(15, 2)
        /\ Get(returned[a].args[4], "current_price_to_target", Zero) = Dec(8, 1)
        /\ returned[a].args[1] = <<>>
        /\ returned[a].val.score = Contribution("valuation", ScorerSelf(returned[a].args))

\* the assessments from best to worst
AssessmentRank ==
    <<"Outperforming expectations", "Performing in line with expectations",
      "Slightly underperforming", "Moderately underperforming",
      "Significantly underperforming">>

RankOf(assessment) == CHOOSE i \in 1..Len(AssessmentRank) : AssessmentRank[i] = assessment

StatedAssessments(score) ==
    {AssessmentRank[5] : x \in {score} \cap {n \in Int : n >= 4}}
    \cup {AssessmentRank[4] : x \in {score} \cap 2..3}
    \cup {AssessmentRank[3] : x \in {score} \cap 0..1}
    \cup {AssessmentRank[2] : x \in {score} \cap -2..-1}
    \cup {AssessmentRank[1] : x \in {score} \cap {n \in Int : n < -2}}

Scores == (0 - MaxScore)..MaxScore

\* C9: the assessment returned is the one of the band of the score returned; every
\* score is in exactly one band: 4 and more "Significantly underperforming", 2..3
\* "Moderately underperforming", 0..1 "Slightly underperforming", -2..-1
\* "Performing in line with expectations", below -2 "Outperforming expectations";
\* and a higher score never has a better assessment.
C9_AssessmentBands ==
    \A a \in Analyzers :
        Assessed(a)
        => /\ returned[a].val.score \in Scores
           /\ StatedAssessments(returned[a].val.score) = {returned[a].val.assessment}
           /\ \A n \in Scores : StatedAssessments(n) = {Assessment(n)}
           /\ \A n, m \in Scores : n <= m => RankOf(Assessment(n)) <= RankOf(Assessment(m))

\* an assessment has been made with a score of exactly 4
C9_Witness ==
    \E a \in Analyzers :
        /\ Assessed(a)
        /\ returned[a].val.score = 4
        /\ returned[a].val.assessment = "Significantly underperforming"

(***************************************************************************)
(* Properties of the reports                                               *)
(***************************************************************************)
Recommendations == <<"BUY", "HOLD/ACCUMULATE", "HOLD/WATCH", "REDUCE", "SELL/AVOID">>

StatedRecommendations(score) ==
    {Recommendations[1] : x \in {score} \cap {n \in Int : n < -2}}
    \cup {Recommendations[2] : x \in {score} \cap {n \in Int : -2 <= n /\ n < 0}}
    \cup {Recommendations[3] : x \in {score} \cap {n \in Int : 0 <= n /\ n < 2}}
    \cup {Recommendations[4] : x \in {score} \cap {n \in Int : 2 <= n /\ n < 4}}
    \cup {Recommendations[5] : x \in {score} \cap {n \in Int : n >= 4}}

\* the recommendation that goes with an assessment
PairedWith(assessment) == Recommendations[RankOf(assessment)]

Recommended(r) == \E i \in 1..Len(Recommendations) : Recommendations[i] = r

\* the recommendation given is the one stated for the score of the assessment, and
\* the one paired with the assessment
Recommends(r, assessment) ==
    /\ StatedRecommendations(assessment.score) = {r}
    /\ r = PairedWith(assessment.assessment)

HasAssessment(results) ==
    DOMAIN Get(results, "underperformance_assessment", EmptyDict) # {}

\* C10: every score has exactly one recommendation, BUY below -2, HOLD/ACCUMULATE
\* in [-2, 0), HOLD/WATCH in [0, 2), REDUCE in [2, 4), SELL/AVOID from 4; the three
\* routines map every score alike; two scores have the same recommendation exactly
\* when they have the same assessment; and whatever print_results, generate_report
\* and StockPerformanceModel.print_results have given for an assessment is the
\* recommendation of its score, paired with its assessment.
C10_Recommendation ==
    /\ \A n \in Scores :
          /\ StatedRecommendations(n) = {PrintRecommendation(n)}
          /\ ReportRecommendation(n) = PrintRecommendation(n)
          /\ SpmPrintRecommendation(n) = PrintRecommendation(n)
          /\ PrintRecommendation(n) = PairedWith(Assessment(n))
    /\ \A n, m \in Scores :
          Assessment(n) = Assessment(m) <=> PrintRecommendation(n) = PrintRecommendation(m)
    /\ Recommended(printed.print_results)
       => Recommends(printed.print_results, analysis_results.underperformance_assessment)
    /\ Recommended(printed.generate_report) /\ HasAssessment(analysis_results)
       => Recommends(printed.generate_report, analysis_results.underperformance_assessment)
    /\ Recommended(printed.spm_print_results)
       => Recommends(printed.spm_print_results, spm.underperformance_assessment)
    /\ /\ Recommended(printed.generate_report)
       /\ Recommended(printed.spm_print_results)
       /\ HasAssessment(analysis_results)
       /\ analysis_results.underperformance_assessment.score
              = spm.underperformance_assessment.score
       => printed.generate_report = printed.spm_print_results

\* the three routines have given HOLD/ACCUMULATE for a score of exactly -2, the
\* monolithic model after running its analysis itself
C10_Witness ==
    /\ printed.print_results = "HOLD/ACCUMULATE"
    /\ printed.generate_report = "HOLD/ACCUMULATE"
    /\ printed.spm_print_results = "HOLD/ACCUMULATE"
    /\ analysis_results.underperformance_assessment.score = -2
    /\ spm.underperformance_assessment.score = -2

(***************************************************************************)
(* Properties of compare_to_peers                                          *)
(***************************************************************************)
ComparedPeers(a) == returned[a].call = "compare_to_peers" /\ returned[a].exc = "none"

\* the nine name pairs
KnownNames == DOMAIN snake_to_camel \cup Range(snake_to_camel)
SnakeName(metric) ==
    IF metric \in DOMAIN snake_to_camel THEN metric
    ELSE CHOOSE k \in DOMAIN snake_to_camel : snake_to_camel[k] = metric
CamelName(metric) == snake_to_camel[SnakeName(metric)]

\* the company's value of the ratio under either name, 0 when it has none
ValueUnderEitherName(metrics, metric) ==
    IF SnakeName(metric) \in DOMAIN metrics THEN metrics[SnakeName(metric)]
    ELSE IF CamelName(metric) \in DOMAIN metrics THEN metrics[CamelName(metric)]
    ELSE Zero

\* C11 as stated: for a peer metric key of one of the nine name pairs, in either
\* naming convention, company_value is the company's value of that ratio, and 0
\* only when the company has no value under either name.
C11_CompanyValueFound ==
    \A a \in Analyzers :
        ComparedPeers(a)
        => \A metric \in DOMAIN returned[a].val \cap KnownNames :
               returned[a].val[metric].company_value
                   = ValueUnderEitherName(returned[a].args[2], metric)

\* a comparison under the peer key pe_ratio has given company_value 0 for a company
\* whose pe_ratio is 20
C11_Witness ==
    \E a \in Analyzers :
        /\ ComparedPeers(a)
        /\ "pe_ratio" \in DOMAIN returned[a].val
        /\ Get(returned[a].args[2], "pe_ratio", Zero) = F(20)
        /\ returned[a].val["pe_ratio"].company_value = Zero

\* the values the peers have for a metric, a peer lacking it counting as 0
PeerValues(peers, metric) ==
    [i \in 1..Len(peers) |-> Get(Get(peers[i], "current_metrics", EmptyDict), metric, Zero)]

\* the k-th smallest of the values
KthSmallest(values, k) ==
    CHOOSE x \in Range(values) :
        /\ Cardinality({i \in 1..Len(values) : FLt(values[i], x)}) < k
        /\ Cardinality({i \in 1..Len(values) : FLe(values[i], x)}) >= k

StatedMedian(values) ==
    IF Len(values) % 2 = 1 THEN KthSmallest(values, (Len(values) + 1) \div 2)
    ELSE FDiv(FAdd(KthSmallest(values, Len(values) \div 2),
                   KthSmallest(values, (Len(values) \div 2) + 1)), F(2))

PeerComparisonOf(peers, val) ==
    IF peers = <<>> THEN val = EmptyDict
    ELSE /\ DOMAIN val = DOMAIN Get(peers[1], "current_metrics", EmptyDict)
         /\ \A metric \in DOMAIN val :
               /\ DOMAIN val[metric] = {"company_value", "peer_median", "percent_difference"}
               /\ val[metric].peer_median = StatedMedian(PeerValues(peers, metric))
               /\ PeerValues(peers, metric) = <<F(20), F(10), F(30)>>
                  => val[metric].peer_median = F(20)
               /\ PeerValues(peers, metric) = <<F(20), F(10), F(30), F(40)>>
                  => val[metric].peer_median = F(25)

\* C12: compare_to_peers never raises; it returns the empty mapping for an empty peer
\* list and otherwise one entry for each key of the first peer's current_metrics and
\* no other; the peer_median of an entry is the median of all peers' values for the
\* key, 0 for a peer without it: the middle of the sorted values for an odd count,
\* the average of the two middle ones for an even count.
C12_EntriesAndMedian ==
    \A a \in Analyzers :
        returned[a].call = "compare_to_peers"
        => /\ returned[a].exc = "none"
           /\ PeerComparisonOf(returned[a].args[1], returned[a].val)

\* a comparison has been made over four peers with values 20, 10, 30, 40, one of
\* which would be the median of an odd count
C12_Witness ==
    \E a \in Analyzers :
        /\ ComparedPeers(a)
        /\ Len(returned[a].args[1]) = 4
        /\ "peRatio" \in DOMAIN returned[a].val
        /\ PeerValues(returned[a].args[1], "peRatio") = <<F(20), F(10), F(30), F(40)>>
        /\ returned[a].val["peRatio"].peer_median = F(25)

PercentDifferenceOf(entry) ==
    IF entry.peer_median = Zero THEN entry.percent_difference = Zero
    ELSE /\ entry.percent_difference
               = FMul(FDiv(FSub(entry.company_value, entry.peer_median), entry.peer_median),
                      F(100))
         /\ FSign(entry.percent_difference)
               = FSign(FSub(entry.company_value, entry.peer_median)) * FSign(entry.peer_median)

\* C13: in every entry percent_difference is (company_value - peer_median) /
\* peer_median * 100 when peer_median is not 0, whatever its sign, and 0 when
\* peer_median is 0, whatever company_value is.
C13_PercentDifference ==
    \A a \in Analyzers :
        ComparedPeers(a)
        => \A metric \in DOMAIN returned[a].val : PercentDifferenceOf(returned[a].val[metric])

\* a company value of 20 has been compared with a peer median of -10
C13_Witness ==
    \E a \in Analyzers :
        /\ ComparedPeers(a)
        /\ "peRatio" \in DOMAIN returned[a].val
        /\ returned[a].val["peRatio"].peer_median = F(-10)
        /\ returned[a].val["peRatio"].company_value = F(20)
        /\ returned[a].val["peRatio"].percent_difference = F(-300)

(***************************************************************************)
(* Properties of perform_dcf                                               *)
(***************************************************************************)
ValuedDcf(a) == returned[a].call = "perform_dcf" /\ returned[a].exc = "none"

\* the current year and the rates a valuation was made on
DcfYearOf(a) == returned[a].args[1].financials[1]
DcfRatesOf(a) == returned[a].args[2]

\* none of the three sources of a base cash flow is positive
NoPositiveSource(current_year) ==
    /\ FLe(Get(current_year, "cashFlow", Zero), Zero)
    /\ FLe(FMul(Get(current_year, "netIncome", Zero), Dec(11, 1)), Zero)
    /\ FLe(FMul(Get(current_year, "revenue", Zero), Dec(1, 1)), Zero)

ZeroedBut(dcf, fields) ==
    /\ dcf.projected_cash_flows = <<>>
    /\ dcf.present_value_cfs = <<>>
    /\ \A f \in {"wacc", "terminal_value", "present_value_tv", "enterprise_value",
                 "equity_value", "implied_share_price", "upside"} \ fields : dcf[f] = Zero

\* C14 as stated: without a positive source of cash flow every field of the result,
\* wacc included, is 0.
C14_AllFieldsZero ==
    \A a \in Analyzers :
        returned[a].call = "perform_dcf" /\ NoPositiveSource(DcfYearOf(a))
        => returned[a].exc = "none" /\ ZeroedBut(returned[a].val, {})

\* C14, amended: when none of operating cash flow, net_income * 1.1 and revenue * 0.1
\* is positive, perform_dcf does not raise and returns empty cash-flow lists and 0
\* for terminal_value, present_value_tv, enterprise_value, equity_value,
\* implied_share_price and upside; wacc is the WACC computed from the capital
\* structure and the rates, as in any other result.
C14_ZeroedResult ==
    \A a \in Analyzers :
        returned[a].call = "perform_dcf" /\ NoPositiveSource(DcfYearOf(a))
        => /\ returned[a].exc = "none"
           /\ ZeroedBut(returned[a].val, {"wacc"})
           /\ returned[a].val.wacc = Wacc([benchmark_data |-> DcfRatesOf(a)], DcfYearOf(a))

\* a valuation has been made of a year with a loss, no revenue and a negative cash
\* flow
C14_Witness ==
    \E a \in Analyzers :
        /\ ValuedDcf(a)
        /\ Get(DcfYearOf(a), "cashFlow", Zero) = F(-5)
        /\ DcfYearOf(a).netIncome = F(-20)
        /\ DcfYearOf(a).revenue = Zero
        /\ returned[a].val.projected_cash_flows = <<>>
        /\ returned[a].val.wacc # Zero

\* the base cash flow stated, by priority; <<>> when no source is positive
StatedBase(current_year) ==
    IF FGt(Get(current_year, "cashFlow", Zero), Zero)
    THEN <<Get(current_year, "cashFlow", Zero)>>
    ELSE IF FGt(FMul(Get(current_year, "netIncome", Zero), Dec(11, 1)), Zero)
    THEN <<FMul(Get(current_year, "netIncome", Zero), Dec(11, 1))>>
    ELSE IF FGt(Get(current_year, "revenue", Zero), Zero)
    THEN <<FMul(Get(current_year, "revenue", Zero), Dec(1, 1))>>
    ELSE <<>>

\* the long-term growth rate a valuation was made on
DcfGrowthOf(a) ==
    Get(Get(returned[a].args[1], "estimates", EmptyDict), "long_term_growth_rate", Dec(1, 1))

\* C15: the first projected cash flow grows from the operating cash flow when that is
\* positive, else from net_income * 1.1 when that is positive, else from revenue *
\* 0.1 when revenue is positive; there is no projection when none is positive.
C15_BasePriority ==
    \A a \in Analyzers :
        ValuedDcf(a)
        => IF StatedBase(DcfYearOf(a)) = <<>>
           THEN returned[a].val.projected_cash_flows = <<>>
           ELSE /\ Len(returned[a].val.projected_cash_flows) > 0
                /\ returned[a].val.projected_cash_flows[1]
                       = FMul(StatedBase(DcfYearOf(a))[1], FAdd(One, DcfGrowthOf(a)))

\* a valuation has been made from the net income of a year with a negative cash flow
\* and a positive revenue
C15_Witness ==
    \E a \in Analyzers :
        /\ ValuedDcf(a)
        /\ Get(DcfYearOf(a), "cashFlow", Zero) = F(-5)
        /\ DcfYearOf(a).netIncome = F(50)
        /\ DcfYearOf(a).revenue = F(500)
        /\ DcfGrowthOf(a) = Dec(1, 1)
        /\ returned[a].val.projected_cash_flows[1] = Dec(605, 1)

\* a valuation that has projected cash flows
Projected(a) == ValuedDcf(a) /\ returned[a].val.projected_cash_flows # <<>>

TerminalValueOf(dcf) ==
    IF FGt(dcf.wacc, Dec(3, 2))
    THEN /\ FGt(FSub(dcf.wacc, Dec(3, 2)), Zero)
         /\ dcf.terminal_value
               = FDiv(FMul(dcf.projected_cash_flows[5], Dec(103, 2)), FSub(dcf.wacc, Dec(3, 2)))
    ELSE /\ FLe(dcf.wacc, Dec(3, 2))
         /\ dcf.terminal_value = FMul(dcf.projected_cash_flows[5], F(20))

\* C16: with a positive base cash flow, terminal_value is cf5 * 1.03 / (WACC - 0.03)
\* when WACC is above 0.03, the denominator being positive then, and cf5 * 20 when
\* WACC is 0.03 or less.
C16_TerminalValue ==
    \A a \in Analyzers : Projected(a) => TerminalValueOf(returned[a].val)

\* a valuation has been made at a WACC of exactly 3%
C16_Witness ==
    \E a \in Analyzers :
        /\ Projected(a)
        /\ returned[a].val.wacc = Dec(3, 2)
        /\ returned[a].val.terminal_value = FMul(returned[a].val.projected_cash_flows[5], F(20))
        /\ FGt(returned[a].val.terminal_value, Zero)

\* the growth of year k: g * (1 - (k - 1) * 0.1)
GrowthOfYear(g, k) == FMul(g, FSub(One, FMul(F(k - 1), Dec(1, 1))))

ProjectionOf(base, g, dcf) ==
    /\ Len(dcf.projected_cash_flows) = 5
    /\ Len(dcf.present_value_cfs) = 5
    /\ \A k \in 1..5 :
          /\ dcf.projected_cash_flows[k]
                = FMul(IF k = 1 THEN base ELSE dcf.projected_cash_flows[k - 1],
                       FAdd(One, GrowthOfYear(g, k)))
          /\ k > 1 /\ g # Zero
             => dcf.projected_cash_flows[k] # FMul(base, FAdd(One, GrowthOfYear(g, k)))
          /\ dcf.present_value_cfs[k]
                = FDiv(dcf.projected_cash_flows[k], FPow(FAdd(One, dcf.wacc), k))

\* C17: with a positive base cash flow there are exactly 5 projected cash flows and 5
\* present values; cf_k = cf_(k-1) * (1 + g * (1 - (k-1) * 0.1)) with cf_0 the base
\* cash flow, each year growing from the year before and not from the base, and
\* pv_k = cf_k / (1 + WACC)^k.
C17_Projection ==
    \A a \in Analyzers :
        ValuedDcf(a) /\ StatedBase(DcfYearOf(a)) # <<>>
        => ProjectionOf(StatedBase(DcfYearOf(a))[1], DcfGrowthOf(a), returned[a].val)

\* a valuation has projected a cash flow of 90 at a growth of 20%: 108, then 127.44
C17_Witness ==
    \E a \in Analyzers :
        /\ Projected(a)
        /\ StatedBase(DcfYearOf(a)) = <<F(90)>>
        /\ DcfGrowthOf(a) = Dec(2, 1)
        /\ returned[a].val.projected_cash_flows[1] = F(108)
        /\ returned[a].val.projected_cash_flows[2] = Dec(12744, 2)

\* price * shares and price * shares + total_debt of a year
EquityValueOf(current_year) ==
    FMul(Get(current_year, "stock_price", Zero), Get(current_year, "shares_outstanding", Zero))
TotalCapitalOf(current_year) ==
    FAdd(EquityValueOf(current_year), Get(current_year, "totalDebt", Zero))

StatedEquityWeight(current_year) ==
    IF FGt(TotalCapitalOf(current_year), Zero)
    THEN FDiv(EquityValueOf(current_year), TotalCapitalOf(current_year))
    ELSE One
StatedDebtWeight(current_year) ==
    IF FGt(TotalCapitalOf(current_year), Zero)
    THEN FSub(One, StatedEquityWeight(current_year))
    ELSE Zero

StatedCostOfEquity(rates) ==
    FAdd(Get(rates, "risk_free_rate", Dec(35, 3)),
         FMul(Dec(12, 1), Get(rates, "market_risk_premium", Dec(55, 3))))
CostOfDebt == Dec(375, 4)

Between(x, low, high) ==
    \/ FLe(low, x) /\ FLe(x, high)
    \/ FLe(high, x) /\ FLe(x, low)

NonNegativeCapital(current_year) ==
    /\ FGe(Get(current_year, "stock_price", Zero), Zero)
    /\ FGe(Get(current_year, "shares_outstanding", Zero), Zero)
    /\ FGe(Get(current_year, "totalDebt", Zero), Zero)

WaccOf(current_year, rates, wacc) ==
    /\ FAdd(StatedEquityWeight(current_year), StatedDebtWeight(current_year)) = One
    /\ wacc = FAdd(FMul(StatedEquityWeight(current_year), StatedCostOfEquity(rates)),
                   FMul(StatedDebtWeight(current_year), CostOfDebt))
    /\ NonNegativeCapital(current_year)
       => Between(wacc, CostOfDebt, StatedCostOfEquity(rates))

\* C18: the weights price * shares / (price * shares + total_debt) and 1 minus it, or
\* 1 and 0 when the total capital is not positive, sum to 1; the wacc of the result is
\* equity_weight * (risk_free_rate + 1.2 * market_risk_premium) + debt_weight *
\* 0.0375, the rates being 0.035 and 0.055 when absent; for a price, shares and debt
\* that are not negative it lies between the cost of debt and the cost of equity.
C18_Wacc ==
    \A a \in Analyzers :
        ValuedDcf(a) => WaccOf(DcfYearOf(a), DcfRatesOf(a), returned[a].val.wacc)

\* a valuation has been made of a company with equity 1000 and debt 50 on a benchmark
\* without rates
C18_Witness ==
    \E a \in Analyzers :
        /\ ValuedDcf(a)
        /\ EquityValueOf(DcfYearOf(a)) = F(1000)
        /\ DcfYearOf(a).totalDebt = F(50)
        /\ DcfRatesOf(a) = EmptyDict
        /\ returned[a].val.wacc = Dec(9797619, 8)

ValuationOf(current_year, dcf) ==
    /\ dcf.present_value_tv = FDiv(dcf.terminal_value, FPow(FAdd(One, dcf.wacc), 5))
    /\ dcf.enterprise_value
          = FAdd(FAdd(FAdd(FAdd(FAdd(FAdd(Zero, dcf.present_value_cfs[1]),
                                     dcf.present_value_cfs[2]),
                                dcf.present_value_cfs[3]),
                           dcf.present_value_cfs[4]),
                      dcf.present_value_cfs[5]),
                 dcf.present_value_tv)
    /\ dcf.equity_value = FSub(dcf.enterprise_value, Get(current_year, "totalDebt", Zero))
    /\ dcf.implied_share_price
          = IF FLe(Get(current_year, "shares_outstanding", Zero), Zero) THEN Zero
            ELSE FDiv(dcf.equity_value, current_year.shares_outstanding)
    /\ dcf.upside
          = IF FLe(Get(current_year, "stock_price", Zero), Zero) THEN Zero
            ELSE FDiv(FSub(dcf.implied_share_price, current_year.stock_price),
                      current_year.stock_price)

\* C19: with a positive base cash flow, present_value_tv is terminal_value /
\* (1 + WACC)^5, enterprise_value is the sum of the present values plus
\* present_value_tv, equity_value is enterprise_value - total_debt,
\* implied_share_price is equity_value / shares_outstanding, 0 without shares, and
\* upside is (implied_share_price - stock_price) / stock_price, 0 without a price.
C19_Valuation ==
    \A a \in Analyzers : Projected(a) => ValuationOf(DcfYearOf(a), returned[a].val)

\* a valuation has been made of a company with debt and a price but no shares: its
\* implied share price is 0 and its upside -100%
C19_Witness ==
    \E a \in Analyzers :
        /\ Projected(a)
        /\ DcfYearOf(a).shares_outstanding = Zero
        /\ DcfYearOf(a).stock_price = F(100)
        /\ DcfYearOf(a).totalDebt = F(50)
        /\ returned[a].val.equity_value = FSub(returned[a].val.enterprise_value, F(50))
        /\ returned[a].val.implied_share_price = Zero
        /\ returned[a].val.upside = F(-1)

(***************************************************************************)
(* Properties of calculate_financial_metrics                               *)
(***************************************************************************)
Calculated(a) == returned[a].call = "calculate_financial_metrics" /\ returned[a].exc = "none"

\* num / den, or the default when den is exactly 0
Quotient(num, den, default) == IF den # Zero THEN FDiv(num, den) ELSE default

QuotientsOf(y, estimates, m) ==
    /\ m.net_margin = Quotient(y.netIncome, y.revenue, Zero)
    /\ m.return_on_equity = Quotient(y.netIncome, y.totalEquity, Zero)
    /\ m.return_on_assets = Quotient(y.netIncome, y.totalAssets, Zero)
    /\ m.pe_ratio = IF y.shares_outstanding # Zero /\ y.netIncome # Zero
                    THEN FDiv(y.stock_price, FDiv(y.netIncome, y.shares_outstanding))
                    ELSE Zero
    /\ m.price_to_sales = Quotient(FMul(y.stock_price, y.shares_outstanding), y.revenue, Zero)
    /\ m.price_to_book = Quotient(FMul(y.stock_price, y.shares_outstanding), y.totalEquity, Zero)
    /\ m.enterprise_value = FAdd(FMul(y.stock_price, y.shares_outstanding), y.totalDebt)
    /\ m.ev_to_ebitda = Quotient(m.enterprise_value, y.ebitda, Zero)
    /\ m.debt_to_equity = Quotient(y.totalDebt, y.totalEquity, Zero)
    /\ m.current_price_to_target = Quotient(y.stock_price, estimates.target_price, One)
    /\ m.dividend_yield = Quotient(y.dividend_per_share, y.stock_price, Zero)
    /\ m.payout_ratio
          = Quotient(FMul(y.dividend_per_share, y.shares_outstanding), y.netIncome, Zero)
    /\ m.earnings_per_share = Quotient(y.netIncome, y.shares_outstanding, Zero)
    /\ m.forward_pe = Quotient(y.stock_price, estimates.next_year_eps, Zero)

\* the scenario of the documentation
Documented(y, estimates) ==
    /\ y.stock_price = F(100) /\ y.shares_outstanding = F(10) /\ y.netIncome = F(50)
    /\ y.revenue = F(500) /\ y.totalEquity = F(200) /\ y.totalDebt = F(50)
    /\ estimates.next_year_eps = F(6) /\ estimates.target_price = F(120)

DocumentedValues(m) ==
    /\ m.pe_ratio = F(20)
    /\ m.forward_pe = FDiv(F(100), F(6))
    /\ m.dividend_yield = Dec(1, 2)
    /\ m.current_price_to_target = FDiv(F(100), F(120))

\* C20 as stated: every ratio other than the growth ratios and peg_ratio is its
\* quotient whenever its denominator is not 0, a negative one included, and its
\* default only when the denominator is exactly 0; the documented scenario gives
\* pe_ratio 20, forward_pe 100/6, dividend_yield 0.01, current_price_to_target
\* 100/120.
C20_QuotientUnlessZero ==
    \A a \in Analyzers :
        Calculated(a)
        => /\ QuotientsOf(returned[a].args[1].financials[1], returned[a].args[1].estimates,
                          returned[a].val)
           /\ Documented(returned[a].args[1].financials[1], returned[a].args[1].estimates)
              => DocumentedValues(returned[a].val)

\* the metrics of a company with net income 50 and total equity -200 have been
\* calculated, with a return on equity of 0
C20_Witness ==
    \E a \in Analyzers :
        /\ Calculated(a)
        /\ returned[a].args[1].financials[1].netIncome = F(50)
        /\ returned[a].args[1].financials[1].totalEquity = F(-200)
        /\ returned[a].val.return_on_equity = Zero
        /\ returned[a].val.debt_to_equity = Zero

\* the documented scenario has been calculated, with the documented values
C20_DocumentedScenario ==
    \A a \in Analyzers :
        /\ Calculated(a)
        /\ Documented(returned[a].args[1].financials[1], returned[a].args[1].estimates)
        => DocumentedValues(returned[a].val)

(***************************************************************************)
(* Properties of the growth ratios                                         *)
(***************************************************************************)
\* (current - previous) / previous of a field over the years, 0 when there are
\* fewer than two years or the previous value is not positive
StatedGrowth(financials, field) ==
    IF Len(financials) < 2 THEN Zero
    ELSE IF FLe(Get(financials[2], field, Zero), Zero) THEN Zero
    ELSE FDiv(FSub(Get(financials[1], field, Zero), Get(financials[2], field, Zero)),
              Get(financials[2], field, Zero))

\* C21: revenue_growth and net_income_growth are (current - previous) / previous
\* with financials[1] (the second entry) as previous, and 0 when there are fewer
\* than two years or the previous value is <= 0; for a single year both are 0.
C21_Growth ==
    \A a \in Analyzers :
        Calculated(a)
        => /\ returned[a].val.revenue_growth
                 = StatedGrowth(returned[a].args[1].financials, "revenue")
           /\ returned[a].val.net_income_growth
                 = StatedGrowth(returned[a].args[1].financials, "netIncome")
           /\ Len(returned[a].args[1].financials) = 1
              => /\ returned[a].val.revenue_growth = Zero
                 /\ returned[a].val.net_income_growth = Zero

\* three years 250, 400, 500 of revenue and 25, 40, 50 of net income have been
\* calculated: both ratios are 0.25
C21_Witness ==
    \E a \in Analyzers :
        /\ Calculated(a)
        /\ Len(returned[a].args[1].financials) = 3
        /\ returned[a].args[1].financials[1].revenue = F(500)
        /\ Get(returned[a].args[1].financials[2], "revenue", Zero) = F(400)
        /\ Get(returned[a].args[1].financials[2], "netIncome", Zero) = F(40)
        /\ returned[a].val.revenue_growth = Dec(25, 2)
        /\ returned[a].val.net_income_growth = Dec(25, 2)

(***************************************************************************)
(* Properties of the estimate defaults                                     *)
(***************************************************************************)
EstimatesOf(a) == Get(returned[a].args[1], "estimates", EmptyDict)

\* forward_pe and current_price_to_target without their estimate; the projection of
\* a valuation without a long-term growth rate
OtherDefaults(a) ==
    /\ Calculated(a) /\ "next_year_eps" \notin DOMAIN EstimatesOf(a)
       => returned[a].val.forward_pe = Zero
    /\ Calculated(a) /\ "target_price" \notin DOMAIN EstimatesOf(a)
       => returned[a].val.current_price_to_target = One
    /\ /\ ValuedDcf(a)
       /\ "long_term_growth_rate" \notin DOMAIN EstimatesOf(a)
       /\ StatedBase(DcfYearOf(a)) # <<>>
       => ProjectionOf(StatedBase(DcfYearOf(a))[1], Dec(1, 1), returned[a].val)

\* C22 as stated: a missing long_term_growth_rate is 0.10 in peg_ratio (pe_ratio / 10
\* for a positive pe_ratio) and in the DCF projection, a missing next_year_eps gives
\* forward_pe 0 and a missing target_price gives current_price_to_target 1.
C22_EstimateDefaults ==
    \A a \in Analyzers :
        /\ OtherDefaults(a)
        /\ Calculated(a) /\ "long_term_growth_rate" \notin DOMAIN EstimatesOf(a)
           => returned[a].val.peg_ratio
                 = IF FGt(returned[a].val.pe_ratio, Zero)
                   THEN FDiv(returned[a].val.pe_ratio, F(10))
                   ELSE Zero

\* the metrics of a company with a pe_ratio of 20 and no long-term growth rate have
\* been calculated, with a peg_ratio of 0
C22_Witness ==
    \E a \in Analyzers :
        /\ Calculated(a)
        /\ "long_term_growth_rate" \notin DOMAIN EstimatesOf(a)
        /\ returned[a].val.pe_ratio = F(20)
        /\ returned[a].val.peg_ratio = Zero

\* the defaults of C22 other than that of peg_ratio
C22_OtherDefaults == \A a \in Analyzers : OtherDefaults(a)

(***************************************************************************)
(* Properties of calculate_stock_returns and calculate_alpha               *)
(***************************************************************************)
ReturnsCalculated(a) ==
    returned[a].call = "calculate_stock_returns" /\ returned[a].exc = "none"

Max2(x, y) == IF x >= y THEN x ELSE y

\* entry i of the returns of a history: the year of financials[i], the returns on the
\* price of financials[i + 1]
StatedReturn(financials, i, entry) ==
    /\ entry.year = YearOf(financials[i])
    /\ entry.price_return
          = IF FLe(Get(financials[i + 1], "stock_price", Zero), Zero) THEN Zero
            ELSE FDiv(FSub(Get(financials[i], "stock_price", Zero),
                           Get(financials[i + 1], "stock_price", Zero)),
                      Get(financials[i + 1], "stock_price", Zero))
    /\ entry.dividend_return
          = IF FLe(Get(financials[i + 1], "stock_price", Zero), Zero) THEN Zero
            ELSE FDiv(Get(financials[i], "dividend_per_share", Zero),
                      Get(financials[i + 1], "stock_price", Zero))
    /\ entry.total_return = FAdd(entry.price_return, entry.dividend_return)

\* C23: for n years calculate_stock_returns returns max(n - 1, 0) entries, most
\* recent first, entry i with the year of financials[i], price_return
\* (price[i] - price[i+1]) / price[i+1] and dividend_return dividend[i] / price[i+1],
\* both 0 when price[i+1] <= 0, and total_return their sum; fewer than two years give
\* an empty sequence and no error.
C23_StockReturns ==
    \A a \in Analyzers :
        returned[a].call = "calculate_stock_returns"
        => /\ returned[a].exc = "none"
           /\ Len(returned[a].val) = Max2(Len(returned[a].args[1].financials) - 1, 0)
           /\ \A i \in 1..Len(returned[a].val) :
                 StatedReturn(returned[a].args[1].financials, i, returned[a].val[i])
           /\ Len(returned[a].args[1].financials) < 2 => returned[a].val = <<>>

\* the returns of the prices 100, 80, 50 with a dividend of 1 have been calculated:
\* 0.25 + 0.0125 for 2024, then 0.6 + 0.02 for 2023
C23_Witness ==
    \E a \in Analyzers :
        /\ ReturnsCalculated(a)
        /\ Len(returned[a].args[1].financials) = 3
        /\ Len(returned[a].val) = 2
        /\ returned[a].val[1].year = <<2024>>
        /\ returned[a].val[1].price_return = Dec(25, 2)
        /\ returned[a].val[1].dividend_return = Dec(125, 4)
        /\ returned[a].val[1].total_return = Dec(2625, 4)
        /\ returned[a].val[2].year = <<2023>>
        /\ returned[a].val[2].total_return = Dec(62, 2)

AlphaCalculated(a) == returned[a].call = "calculate_alpha" /\ returned[a].exc = "none"

\* the benchmark entries of a year, by position
EntriesOfYear(market_index, year) ==
    {j \in 1..Len(market_index) : YearOf(market_index[j]) = year}

\* the market return of the first benchmark entry of a year that has one
MarketReturn(market_index, year) ==
    Get(market_index[CHOOSE j \in EntriesOfYear(market_index, year) :
                        \A k \in EntriesOfYear(market_index, year) : j <= k],
        "return", Zero)

\* the return entries whose year has a benchmark entry, in their order
WithBenchmark(market_index, company_returns) ==
    LET HasEntry(company_return) == EntriesOfYear(market_index, company_return.year) # {}
    IN SelectSeq(company_returns, HasEntry)

AlphaOf(market_index, company_returns, alpha) ==
    /\ Len(alpha) = Len(WithBenchmark(market_index, company_returns))
    /\ \A k \in 1..Len(alpha) :
          /\ alpha[k].year = WithBenchmark(market_index, company_returns)[k].year
          /\ alpha[k].alpha
                = FSub(WithBenchmark(market_index, company_returns)[k].total_return,
                       MarketReturn(market_index, alpha[k].year))
    /\ Len(alpha) <= Len(company_returns)
    /\ market_index = <<>> => alpha = <<>>

\* C24: calculate_alpha returns, in the order of its input, one entry for each return
\* entry whose year has a benchmark entry, with alpha = total_return - market_return
\* of the first matching benchmark entry, and drops the other return entries; the
\* result is never longer than the input and is empty for an empty benchmark series.
C24_Alpha ==
    \A a \in Analyzers :
        returned[a].call = "calculate_alpha"
        => /\ returned[a].exc = "none"
           /\ AlphaOf(Get(returned[a].args[1], "market_index", <<>>), returned[a].args[2],
                      returned[a].val)

\* the alpha of the returns of 2024 and 2023 has been calculated on a benchmark that
\* has 2023 only: one entry, 0.62 - 0.9 for 2023
C24_Witness ==
    \E a \in Analyzers :
        /\ AlphaCalculated(a)
        /\ Len(returned[a].args[2]) = 2
        /\ returned[a].args[2][1].year = <<2024>>
        /\ returned[a].args[1] = [market_index |-> <<[year |-> 2023, return |-> Dec(9, 1)]>>]
        /\ returned[a].val = <<[year |-> <<2023>>, alpha |-> Dec(-28, 2)]>>

\* the alpha of 2024 has been calculated on a benchmark that gives 2024 twice, from
\* the first of the two returns
C24_FirstOfTwo ==
    \E a \in Analyzers :
        /\ AlphaCalculated(a)
        /\ Len(returned[a].args[2]) = 1
        /\ Len(Get(returned[a].args[1], "market_index", <<>>)) = 2
        /\ returned[a].args[1].market_index[2].year = 2024
        /\ returned[a].val[1].alpha = FSub(returned[a].args[2][1].total_return, Dec(1, 1))

(***************************************************************************)
(* Properties of the alpha the scorer reads                                *)
(***************************************************************************)
\* a run whose assessment holds a factor of the alpha rule
AlphaScored(a) ==
    /\ returned[a].call = "run_analysis" /\ returned[a].exc = "none"
    /\ FactorsNamed(returned[a].val.underperformance_assessment.factors, AlphaFactors) # {}

\* C25 as stated: whenever the alpha rule fires, the alpha it evaluates is that of the
\* most recent year, the year of financials[0], also when the benchmark series has no
\* entry for that year.
C25_MostRecentAlpha ==
    \A a \in Analyzers :
        AlphaScored(a)
        => returned[a].val.alpha_analysis[1].year = YearOf(returned[a].args[1].financials[1])

\* a run on the years 2024, 2023, 2022 and a benchmark that has 2023 only has scored
\* the alpha of 2023, -0.28, as underperformance "in the most recent year"
C25_Witness ==
    \E a \in Analyzers :
        /\ AlphaScored(a)
        /\ YearOf(returned[a].args[1].financials[1]) = <<2024>>
        /\ returned[a].val.alpha_analysis = <<[year |-> <<2023>>, alpha |-> Dec(-28, 2)]>>
        /\ returned[a].val.underperformance_assessment.factors[1]
              = [factor |-> "underperformed the market", amount |-> F(28)]

(***************************************************************************)
(* Properties of the analyzer's result fields                              *)
(***************************************************************************)
\* run_analysis has not completed on the analyzer
NotRun(a) ==
    /\ company_metrics[a] = EmptyDict /\ stock_returns[a] = <<>> /\ alpha_analysis[a] = <<>>
    /\ peer_comparison[a] = EmptyDict /\ dcf_valuation[a] = EmptyDict
    /\ underperformance_assessment[a] = EmptyDict

\* the company_metrics the analyzer holds are those its data gives
MetricsKept(a) ==
    /\ Calculated(a) /\ company_metrics[a] # EmptyDict => returned[a].val = company_metrics[a]
    /\ Assessed(a) => returned[a].args[4] = company_metrics[a]

\* the scorer on an analyzer that has not run
UnrunAssessment(a) ==
    Assessed(a) /\ NotRun(a)
    => returned[a].val = [assessment |-> "Slightly underperforming", score |-> 0,
                          factors |-> <<>>]

\* C26: only run_analysis writes the six result fields (a step that ends in a direct
\* call of one of the six methods leaves them unchanged, and the company_metrics
\* held are those the Metrics Calculator gives); assess_underperformance on an
\* analyzer on which run_analysis has not completed returns score 0, no factors and
\* "Slightly underperforming" whatever the input data.
C26_OnlyRunAnalysisWrites ==
    /\ [][\A a \in Analyzers : returned'[a].call # "run_analysis" => ResultFields(a)' = ResultFields(a)]_vars
    /\ [](\A a \in Analyzers : MetricsKept(a) /\ UnrunAssessment(a))

\* the scorer has been called, before any run, on an analyzer whose run would score
\* the alpha of 2023
C26_Witness ==
    \E a \in Analyzers :
        /\ Assessed(a) /\ NotRun(a)
        /\ returned[a].val.score = 0
        /\ Len(company_data[a].financials) = 3
        /\ benchmark_data[a] = [market_index |-> <<[year |-> 2023, return |-> Dec(9, 1)]>>]
        /\ run_analysis(Self(a)).out.val.underperformance_assessment.score > 0

(***************************************************************************)
(* Properties of the score and the factor list                             *)
(***************************************************************************)
\* the number of rules that fire on the results the scorer reads
Fired(self) ==
    (IF StatedAlpha(self.alpha_analysis) # 0 THEN 1 ELSE 0)
    + Cardinality({metric \in DOMAIN self.peer_comparison \cap ScoredMetrics :
                      StatedContribution(metric, self.peer_comparison[metric].percent_difference,
                                         FALSE) # 0})
    + (IF StatedDcf(self.dcf_valuation) # 0 THEN 1 ELSE 0)
    + (IF StatedTarget(self.company_metrics) # 0 THEN 1 ELSE 0)

\* C27: the score returned by assess_underperformance lies within -7..12, the factor
\* list has exactly one entry per fired rule, at most 11, and an empty factor list
\* implies score 0.
C27_ScoreRange ==
    \A a \in Analyzers :
        Assessed(a)
        => /\ returned[a].val.score \in -7..12
           /\ Len(returned[a].val.factors) = Fired(ScorerSelf(returned[a].args))
           /\ Len(returned[a].val.factors) <= 11
           /\ returned[a].val.factors = <<>> => returned[a].val.score = 0

\* an assessment has reached the score 12, with ten factors
C27_Witness ==
    \E a \in Analyzers :
        /\ Assessed(a)
        /\ returned[a].val.score = 12
        /\ Len(returned[a].val.factors) = 10

\* an assessment has reached the score -7, with six factors
C27_Lowest ==
    \E a \in Analyzers :
        /\ Assessed(a)
        /\ returned[a].val.score = -7
        /\ Len(returned[a].val.factors) = 6

(***************************************************************************)
(* Properties of StockPerformanceModel.fetch_all_data                      *)
(***************************************************************************)
SpmFetched == spm.returned.call \in {"fetch_all_data", "run_analysis"}

\* one record per fetched stock-price year, or the current year and the two before
OrganizedYearsOf(financials, stock_prices) ==
    /\ Len(financials) > 0
    /\ stock_prices # <<>>
       => /\ Len(financials) = Len(stock_prices)
          /\ \A i \in 1..Len(financials) : financials[i].year = stock_prices[i].year
    /\ stock_prices = <<>>
       => /\ Len(financials) = 3
          /\ \A i \in 1..3 : financials[i].year = SpmYear - (i - 1)

AllFieldsZero(year) == \A f \in DOMAIN year \ {"year"} : year[f] = Zero

\* the statement fields of a year are those of the statements fetched for it
StatementsOfYear(y, fetched) ==
    /\ y.revenue = Get(StatementOfYear(fetched.income_statement, y.year), "revenue", Zero)
    /\ y.netIncome = Get(StatementOfYear(fetched.income_statement, y.year), "netIncome", Zero)
    /\ y.ebitda = Get(StatementOfYear(fetched.income_statement, y.year), "ebitda", Zero)
    /\ y.totalAssets = Get(StatementOfYear(fetched.balance_sheet, y.year), "totalAssets", Zero)
    /\ y.totalEquity = Get(StatementOfYear(fetched.balance_sheet, y.year), "totalEquity", Zero)
    /\ y.cashFlow = Get(StatementOfYear(fetched.cash_flow, y.year), "operatingCashFlow", Zero)

NoDataError == spm.returned.call = "run_analysis" => spm.returned.exc = "none"

C29_LazyInOrder ==
    facade.returned.call \in {"analyze_data", "report_results", "visualize_results"}
    => /\ facade.raw_data # EmptyDict
       /\ facade.financial_analyzer # <<>>
       /\ "peer_performance" \in DOMAIN facade.analysis_results
       /\ facade.returned.call = "analyze_data"
          => /\ facade.returned.exc = "none"
             /\ facade.returned.val = facade.analysis_results

\* analyze_data has fetched the raw data and raised TypeError, leaving the facade
\* without an analyzer and without analysis results
C29_Witness ==
    /\ facade.returned.call = "analyze_data"
    /\ facade.returned.exc = "TypeError"
    /\ facade.raw_data # EmptyDict
    /\ facade.financial_analyzer = <<>>
    /\ facade.analysis_results = EmptyDict

\* no method of the facade other than fetch_data ever returns
C29_AlwaysRaises ==
    facade.returned.call \in {"analyze_data", "report_results", "visualize_results"}
    => /\ facade.returned.exc = "TypeError"
       /\ facade.raw_data # EmptyDict

(***************************************************************************)
(* Properties of the two variants of the analysis engine                   *)
(***************************************************************************)
\* both variants have compared the same metrics to the same peers
BothCompared(a) ==
    /\ ComparedPeers(a)
    /\ spm.returned.call = "compare_to_peers"
    /\ spm.returned.args = returned[a].args

\* both variants have run on the same data
BothRan(a) ==
    /\ returned[a].call = "run_analysis"
    /\ spm.returned.call = "run_analysis"
    /\ returned[a].args = <<spm.company_data, spm.benchmark_data, spm.peer_companies>>

\* the metric keys of a peer list
PeerKeysOf(peers) ==
    IF peers = <<>> THEN {} ELSE DOMAIN Get(peers[1], "current_metrics", EmptyDict)

\* C30: for the same company data, benchmark data and peer list the analysis methods
\* of StockPerformanceModel and of FinancialAnalyzer return identical results; the
\* two compare_to_peers variants, which test the name table in opposite order,
\* choose the same company metric for every peer metric key.
C30_Equivalent ==
    \A a \in Analyzers :
        /\ BothCompared(a)
           => /\ spm.returned.exc = returned[a].exc
              /\ spm.returned.val = returned[a].val
              /\ \A metric \in PeerKeysOf(returned[a].args[1]) :
                    SpmCompanyMetricFor(metric) = CompanyMetricFor(metric)
        /\ BothRan(a)
           => /\ spm.returned.exc = returned[a].exc
              /\ spm.returned.val = returned[a].val
              /\ \A metric \in PeerKeysOf(spm.peer_companies) :
                    SpmCompanyMetricFor(metric) = CompanyMetricFor(metric)

\* both variants have run on three fetched years and peers with camelCase keys, and
\* then compared the metrics of the run: the same entries, that of peRatio with the
\* company's pe_ratio
C30_Witness ==
    \E a \in Analyzers :
        /\ BothCompared(a)
        /\ returned[a].args[1] = peersThree
        /\ Len(spm.company_data.financials) = 3
        /\ DOMAIN returned[a].args[2] # {}
        /\ returned[a].val.peRatio.company_value = returned[a].args[2].pe_ratio
        /\ returned[a].val.peRatio.company_value # Zero
        /\ spm.returned.val = returned[a].val

\* both variants have run on the same data with peers whose keys are snake_case
C30_BothRanSnakeCase ==
    \E a \in Analyzers :
        /\ BothRan(a)
        /\ "pe_ratio" \in PeerKeysOf(spm.peer_companies)
        /\ returned[a].exc = "none"
        /\ spm.returned.val = returned[a].val

====
